---- MODULE Spec2Model ----
(***************************************************************************)
(* The waste-disposal assistant's task-routing workflow                    *)
(* (waste-management-system/src/agents/waste_management_workflow.py):      *)
(* a supervisor node inspects the shared state dict and names the next     *)
(* worker node; worker nodes call their tool and write one field; the      *)
(* graph is run by LangGraph from process_query.                           *)
(*                                                                         *)
(* Python values are tagged records so that None, "", {} and [] remain     *)
(* distinct values while Python's truth test treats all four as false.     *)
(***************************************************************************)
EXTENDS Integers, Sequences, FiniteSets, TLC

VARIABLES
    state,           \* the WasteManagementState dict threaded through the graph
    pc,              \* the graph node due to run next, or "END"/"returned"
    steps,           \* LangGraph super-steps taken by this ainvoke
    result,          \* the dict process_query returns (None until it returns)
    trace,           \* the worker/response nodes that have run, in order
    raised,          \* the worker nodes of which some run took the except branch
    answered,        \* the worker nodes of which some run took no except branch
    gmaps_client,    \* LocationFinderTool.gmaps_client is set (API key configured)
    call,            \* the arguments process_query was called with
    llm_raised       \* the text generator raised inside generate_final_response

vars == <<state, pc, steps, result, trace, raised, answered, gmaps_client, call, llm_raised>>

-----------------------------------------------------------------------------
(* Python values *)

None == [t |-> "None"]
Str(s) == [t |-> "str", v |-> s]
Num(n) == [t |-> "num", v |-> n]
Bool(b) == [t |-> "bool", v |-> b]
List(s) == [t |-> "list", v |-> s]
Dict(d) == [t |-> "dict", n |-> 1, v |-> d]
\* a str kept as the tuple of its parts or lines; Text(<<>>) is ""
Text(lines) == [t |-> "text", v |-> lines]
EmptyDict == [t |-> "dict", n |-> 0]

\* Python's truth test, as applied by `not x` and `if x`
Truthy(x) ==
    CASE x.t = "None" -> FALSE
      [] x.t = "str"  -> x.v # ""
      [] x.t = "num"  -> x.v # 0
      [] x.t = "bool" -> x.v
      [] x.t = "list" -> Len(x.v) > 0
      [] x.t = "text" -> Len(x.v) > 0
      [] x.t = "dict" -> x.n > 0

-----------------------------------------------------------------------------
(* Bounds and program constants *)

\* langgraph's default recursion_limit: ainvoke is called without a config
RecursionLimit == 25

\* confidence values are kept in hundredths (0.3 is 30)
FallbackConfidence == 30

WasteTypes == {"e-waste", "medical", "hazardous", "recyclable", "organic",
               "household", "unknown"}

WorkerNodes == {"classify_waste", "get_location", "lookup_regulations",
                "find_locations"}
StageNodes == WorkerNodes \cup {"generate_response"}

-----------------------------------------------------------------------------
(* Supervisor / router *)

\* A router that asks for the location before the waste type
plan_next_action_location_first(s) ==
    IF ~Truthy(s.user_location) THEN "get_location"
    ELSE IF ~Truthy(s.waste_type) THEN "classify_waste"
    ELSE IF ~Truthy(s.local_regulations) THEN "lookup_regulations"
    ELSE IF ~Truthy(s.disposal_locations) THEN "find_locations"
    ELSE "generate_response"

\* A router that remembers its last choice: having sent the run to
\* find_locations once, it moves on
plan_next_action_remembers(s) ==
    IF ~Truthy(s.waste_type) THEN "classify_waste"
    ELSE IF ~Truthy(s.user_location) THEN "get_location"
    ELSE IF ~Truthy(s.local_regulations) THEN "lookup_regulations"
    ELSE IF ~Truthy(s.disposal_locations) /\ s.processing_step # Str("find_locations")
    THEN "find_locations"
    ELSE "generate_response"

\* A router that goes to the synthesizer as soon as the regulations are there
plan_next_action_skips_finder(s) ==
    IF ~Truthy(s.waste_type) THEN "classify_waste"
    ELSE IF ~Truthy(s.user_location) THEN "get_location"
    ELSE IF ~Truthy(s.local_regulations) THEN "lookup_regulations"
    ELSE "generate_response"

\* SupervisorAgent.plan_next_action: `if not state.get(field)` in fixed order
plan_next_action(s) ==
    IF ~Truthy(s.waste_type) THEN "classify_waste"
    ELSE IF ~Truthy(s.user_location) THEN "get_location"
    ELSE IF ~Truthy(s.local_regulations) THEN "lookup_regulations"
    ELSE IF ~Truthy(s.disposal_locations) THEN "find_locations"
    ELSE "generate_response"

\* _route_next_action: state.get('processing_step', 'end')
_route_next_action(s) ==
    IF s.processing_step = None THEN "end" ELSE s.processing_step.v

\* A mapping that sends the generate_response route straight to END
ConditionalEdge_response_to_end(r) ==
    IF r \in {"end", "generate_response"} THEN "END" ELSE r

\* the mapping of add_conditional_edges: a route name to the node it enters
ConditionalEdge(r) == IF r = "end" THEN "END" ELSE r

-----------------------------------------------------------------------------
(* Waste classifier tool (tools/waste_classifier.py) *)

\* Texts are tuples of one-character strings so that `keyword in text` is a
\* substring test.
EmptyQuery == <<>>
LaptopQuery == <<"o","l","d"," ","l","a","p","t","o","p"," ","b","a","t","t","e","r","y">>
NonsenseQuery == <<"x","y","z","1","2","3">>
OilCanQuery == <<"O","i","l"," ","c","a","n">>
Queries == {EmptyQuery, LaptopQuery, NonsenseQuery, OilCanQuery}

\* str.lower() on the characters the modelled queries use
LowerChar(c) ==
    CASE c = "O" -> "o" [] c = "T" -> "t" [] c = "V" -> "v" [] OTHER -> c
Lower(text) == [i \in 1..Len(text) |-> LowerChar(text[i])]

\* Python's `kw in text` for strings
Contains(text, kw) ==
    \E i \in 1..(Len(text) - Len(kw) + 1) : SubSeq(text, i, i + Len(kw) - 1) = kw

\* the keyword table of _fallback_classification
classification_rules ==
    <<
     [type |-> "e-waste", sub_type |-> "electronics", hazard |-> "medium",
      special_handling |-> TRUE,
      keywords |-> <<
          <<"b","a","t","t","e","r","y">>,
          <<"e","l","e","c","t","r","o","n","i","c">>,
          <<"c","o","m","p","u","t","e","r">>,
          <<"l","a","p","t","o","p">>,
          <<"p","h","o","n","e">>,
          <<"t","a","b","l","e","t">>,
          <<"t","v">>,
          <<"m","o","n","i","t","o","r">>,
          <<"c","a","b","l","e">>,
          <<"c","h","a","r","g","e","r">>>>],
     [type |-> "medical", sub_type |-> "medical_device", hazard |-> "high",
      special_handling |-> TRUE,
      keywords |-> <<
          <<"n","e","e","d","l","e">>,
          <<"s","y","r","i","n","g","e">>,
          <<"m","e","d","i","c","a","t","i","o","n">>,
          <<"m","e","d","i","c","i","n","e">>,
          <<"p","i","l","l">>,
          <<"b","a","n","d","a","g","e">>,
          <<"m","e","d","i","c","a","l">>,
          <<"t","h","e","r","m","o","m","e","t","e","r">>>>],
     [type |-> "hazardous", sub_type |-> "chemical", hazard |-> "high",
      special_handling |-> TRUE,
      keywords |-> <<
          <<"p","a","i","n","t">>,
          <<"o","i","l">>,
          <<"c","h","e","m","i","c","a","l">>,
          <<"p","e","s","t","i","c","i","d","e">>,
          <<"c","l","e","a","n","e","r">>,
          <<"s","o","l","v","e","n","t">>,
          <<"a","c","i","d">>,
          <<"g","a","s","o","l","i","n","e">>>>],
     [type |-> "recyclable", sub_type |-> "container", hazard |-> "low",
      special_handling |-> FALSE,
      keywords |-> <<
          <<"p","l","a","s","t","i","c">>,
          <<"b","o","t","t","l","e">>,
          <<"c","a","n">>,
          <<"c","a","r","d","b","o","a","r","d">>,
          <<"p","a","p","e","r">>,
          <<"g","l","a","s","s">>,
          <<"j","a","r">>,
          <<"c","o","n","t","a","i","n","e","r">>>>],
     [type |-> "organic", sub_type |-> "compostable", hazard |-> "low",
      special_handling |-> FALSE,
      keywords |-> <<
          <<"f","o","o","d">>,
          <<"o","r","g","a","n","i","c">>,
          <<"c","o","m","p","o","s","t">>,
          <<"y","a","r","d">>,
          <<"l","e","a","v","e","s">>,
          <<"f","r","u","i","t">>,
          <<"v","e","g","e","t","a","b","l","e">>>>]
    >>

Matches(rule, text) ==
    Cardinality({k \in 1..Len(rule.keywords) : Contains(text, rule.keywords[k])})

\* the `for rule in classification_rules` loop: score = matches / len(keywords),
\* a rule replaces the best one only on a strictly higher score, so the best
\* match is the first rule of the highest non-zero score.  rule = 0 is
\* `best_match = None`; the score is the fraction m / l.
BestMatch(text) ==
    LET n == Len(classification_rules)
        l == [i \in 1..n |-> Len(classification_rules[i].keywords)]
        pick(m) ==
            LET best == {i \in 1..n :
                            /\ m[i] > 0
                            /\ \A j \in 1..n : m[j] * l[i] <= m[i] * l[j]
                            /\ \A j \in 1..(i - 1) : m[j] * l[i] < m[i] * l[j]}
            IN  IF best = {} THEN [rule |-> 0, m |-> 0, l |-> 1]
                ELSE LET i == CHOOSE i \in best : TRUE
                     IN  [rule |-> i, m |-> m[i], l |-> l[i]]
    IN  CHOOSE r \in {pick(m) : m \in {[i \in 1..n |-> Matches(classification_rules[i], text)]}} : TRUE

Min(a, b) == IF a <= b THEN a ELSE b

\* WasteClassificationTool._fallback_classification; confidence in hundredths,
\* min(0.6 + score * 0.3, 0.9) rounded down
_fallback_classification(waste_description) ==
    LET classified(b) ==
            IF b.rule # 0
            THEN [primary_type |-> classification_rules[b.rule].type,
                  sub_type |-> classification_rules[b.rule].sub_type,
                  confidence |-> Min(60 + (30 * b.m) \div b.l, 90),
                  hazard_level |-> classification_rules[b.rule].hazard,
                  special_handling |-> classification_rules[b.rule].special_handling,
                  reasoning |-> "Keyword-based classification (fallback mode)"]
            ELSE [primary_type |-> "household",
                  sub_type |-> "general",
                  confidence |-> FallbackConfidence,
                  hazard_level |-> "low",
                  special_handling |-> FALSE,
                  reasoning |-> "Could not classify - defaulting to household waste"]
    IN  CHOOSE r \in {classified(b) : b \in {BestMatch(Lower(waste_description))}} : TRUE

HazardLevels == {"low", "medium", "high", "critical"}

\* What the language model may do when asked to classify: raise, answer text
\* that holds no usable JSON, or answer a JSON object.  An answer may name a
\* type outside the enumeration or a confidence outside [0, 1].
LlmClassifications ==
    {[kind |-> "raise"], [kind |-> "unparsable"]} \cup
    {[kind |-> "json", primary_type |-> p, confidence |-> c,
      hazard_level |-> h, special_handling |-> TRUE]
        : p \in {"e-waste", "household", "glass"}, c \in {95, 150},
          h \in {"medium", "toxic"}}

\* _parse_llm_response: None when no JSON object is found, otherwise the object
\* with an unknown primary_type replaced by household and an unknown hazard
\* level by low.  parsed = FALSE stands for the None return.
_parse_llm_response(response) ==
    IF response.kind # "json" THEN [parsed |-> FALSE]
    ELSE [parsed |-> TRUE,
          data |-> [primary_type |-> IF response.primary_type \in WasteTypes
                                     THEN response.primary_type ELSE "household",
                    sub_type |-> "general",
                    confidence |-> response.confidence,
                    hazard_level |-> IF response.hazard_level \in HazardLevels
                                     THEN response.hazard_level ELSE "low",
                    special_handling |-> response.special_handling,
                    reasoning |-> "AI classification"]]

\* WasteClassificationResult(...).dict() for classification data c
ClassificationResult(c, description) ==
    [primary_type |-> c.primary_type,
     sub_type |-> c.sub_type,
     confidence |-> c.confidence,
     hazard_level |-> c.hazard_level,
     special_handling |-> c.special_handling,
     description |-> description]

\* WasteClassificationTool._run: the model's answer, or the keyword fallback
\* when the model raises, its answer does not parse, or the result fails the
\* confidence range validation (Field(ge=0.0, le=1.0)).
classifier_run(waste_description, response) ==
    LET answer(fb) ==
            LET onError == ClassificationResult(fb, "Fallback classification due to error")
                p == _parse_llm_response(response)
                c == IF p.parsed THEN p.data ELSE fb
            IN  IF response.kind = "raise" THEN onError
                ELSE IF c.confidence < 0 \/ c.confidence > 100 THEN onError
                ELSE ClassificationResult(c, c.reasoning)
    IN  CHOOSE r \in {answer(fb) : fb \in {_fallback_classification(waste_description)}} : TRUE

-----------------------------------------------------------------------------
(* Geolocation tool (tools/geolocation.py), called with the empty input *)

\* A location dict holds city, state, zipcode, coords and country.  "" is a
\* missing (None) string, <<>> a missing zipcode (zipcodes are digit tuples)
\* and coords names a latitude/longitude pair: "NYC" is (40.7128, -74.0060),
\* "LA" is (34.0522, -118.2437), "" is no coordinates.
Location(city, st, zipcode, coords, country) ==
    [city |-> city, state |-> st, zipcode |-> zipcode, coords |-> coords,
     country |-> country]

\* the ultimate fallback of _get_ip_location and of _run
NYCFallback == Location("New York", "NY", <<1,0,0,0,1>>, "NYC", "US")

\* _normalize_state on the region names the modelled lookups return: a full
\* state name maps to its abbreviation, anything else to upper()[:2]
_normalize_state(region) ==
    CASE region = "California" -> "CA"
      [] region = "New York" -> "NY"
      [] region = "Illinois" -> "IL"
      [] region = "Ontario" -> "ON"
      [] OTHER -> region

\* What http://ipapi.co/json/ may answer: no usable answer (exception or a
\* status other than 200), or a JSON object.
IpResponses ==
    {[kind |-> "fail"],
     [kind |-> "ok", city |-> "Los Angeles", region |-> "California",
      postal |-> <<9,0,0,1,2>>, coords |-> "LA"],
     [kind |-> "ok", city |-> "Chicago", region |-> "Illinois",
      postal |-> <<>>, coords |-> ""],
     [kind |-> "ok", city |-> "Toronto", region |-> "Ontario",
      postal |-> <<>>, coords |-> ""],
     [kind |-> "ok", city |-> "", region |-> "",
      postal |-> <<6,0,6,0,1>>, coords |-> ""],
     [kind |-> "ok", city |-> "", region |-> "",
      postal |-> <<>>, coords |-> "NYC"],
     [kind |-> "ok", city |-> "", region |-> "",
      postal |-> <<>>, coords |-> ""]}

\* _get_ip_location
_get_ip_location(ip) ==
    IF ip.kind = "ok"
    THEN Location(ip.city, _normalize_state(ip.region), ip.postal, ip.coords, "US")
    ELSE NYCFallback

\* the zip_to_state dict in insertion order (a repeated key keeps its first
\* position)
zip_to_state ==
    << <<100, 199, "MA">>, <<200, 299, "DC">>, <<300, 399, "GA">>,
       <<400, 499, "KY">>, <<500, 599, "IA">>, <<600, 699, "IL">>,
       <<700, 799, "LA">>, <<800, 999, "CO">>, <<100, 149, "NY">>,
       <<150, 196, "PA">>, <<970, 999, "TX">>, <<900, 969, "CA">>,
       <<980, 999, "WA">>, <<590, 599, "MT">>, <<10, 59, "MA">>,
       <<60, 99, "CT">>, <<70, 89, "NJ">>, <<197, 199, "DE">> >>

\* _zipcode_to_state; "" is the None return
_zipcode_to_state(zipcode) ==
    IF Len(zipcode) < 5 THEN ""
    ELSE LET zip_prefix == zipcode[1] * 100 + zipcode[2] * 10 + zipcode[3]
             hits == {i \in 1..Len(zip_to_state) :
                        zip_to_state[i][1] <= zip_prefix /\ zip_prefix <= zip_to_state[i][2]}
         IN  IF hits = {} THEN ""
             ELSE zip_to_state[CHOOSE i \in hits : \A j \in hits : i <= j][3]

\* What _reverse_geocode may return when a Google Maps key is configured:
\* None (found = FALSE) or address components, whose city may be missing.
ReverseGeocodes ==
    {[found |-> FALSE],
     [found |-> TRUE, city |-> "Brooklyn", state |-> "NY", zipcode |-> <<1,1,2,0,1>>],
     [found |-> TRUE, city |-> "", state |-> "NY", zipcode |-> <<>>],
     [found |-> TRUE, city |-> "", state |-> "", zipcode |-> <<>>]}

\* A validation that completes from the reverse geocoder or the zipcode but
\* does not default the fields still missing afterwards
_validate_and_complete_location_no_defaults(loc, rev) ==
    IF loc.city = "" \/ loc.state = ""
    THEN IF loc.coords # ""
         THEN IF rev.found
              THEN [loc EXCEPT !.city = rev.city, !.state = rev.state,
                               !.zipcode = rev.zipcode]
              ELSE loc
         ELSE IF loc.zipcode # <<>> /\ _zipcode_to_state(loc.zipcode) # ""
              THEN [loc EXCEPT !.state = _zipcode_to_state(loc.zipcode)]
              ELSE loc
    ELSE loc

\* _validate_and_complete_location; rev is the reverse geocoder's answer
_validate_and_complete_location(loc, rev) ==
    LET completed ==
            IF loc.city = "" \/ loc.state = ""
            THEN IF loc.coords # ""
                 THEN IF rev.found
                      THEN [loc EXCEPT !.city = rev.city, !.state = rev.state,
                                       !.zipcode = rev.zipcode]
                      ELSE loc
                 ELSE IF loc.zipcode # <<>> /\ _zipcode_to_state(loc.zipcode) # ""
                      THEN [loc EXCEPT !.state = _zipcode_to_state(loc.zipcode)]
                      ELSE loc
            ELSE loc
    IN  [completed EXCEPT
            !.city = IF completed.city = "" THEN "Unknown City" ELSE completed.city,
            !.state = IF completed.state = "" THEN "NY" ELSE completed.state,
            !.country = IF completed.country = "" THEN "US" ELSE completed.country]

\* GeolocationTool._run(""): IP lookup, then validation
geolocation_run(ip, rev) ==
    _validate_and_complete_location(_get_ip_location(ip), rev)

-----------------------------------------------------------------------------
(* Regulation lookup tool (tools/regulation_lookup.py) *)

\* regulation_db: the waste types each jurisdiction table has an entry for
regulation_db_types(table) ==
    CASE table = "NY" -> {"e-waste", "medical", "hazardous", "recyclable", "organic"}
      [] table = "CA" -> {"e-waste", "hazardous"}
      [] table = "TX" -> {"e-waste"}
      [] table = "DEFAULT" -> {"e-waste", "medical", "hazardous", "recyclable",
                               "organic", "household"}
      [] OTHER -> {}

\* the "jurisdiction" stored in each table's entries
regulation_db_jurisdiction(table) ==
    CASE table = "NY" -> <<"New York State">>
      [] table = "CA" -> <<"California State">>
      [] table = "TX" -> <<"Texas State">>
      [] OTHER -> <<"Federal/General Guidelines">>

\* the number of preparation_steps of each table's entries
regulation_db_steps(table) ==
    CASE table = "NY" -> 4 [] table = "TX" -> 2 [] OTHER -> 3

\* a regulation dict: texts are kept as tuples naming their parts
Regulation(jurisdiction, rules, nsteps) ==
    [jurisdiction |-> jurisdiction, rules |-> rules,
     preparation_steps |-> [i \in 1..nsteps |-> <<rules, i>>]]

regulation_db_entry(table, waste_type) ==
    Regulation(regulation_db_jurisdiction(table), <<table, waste_type>>,
               regulation_db_steps(table))

\* str.upper() and str.lower() on the state codes and type names that occur
str_upper(s) ==
    CASE s = "ny" -> "NY" [] s = "ca" -> "CA" [] s = "tx" -> "TX"
      [] s = "il" -> "IL" [] OTHER -> s
str_lower(s) ==
    CASE s = "E-WASTE" -> "e-waste" [] s = "Medical" -> "medical" [] OTHER -> s

\* waste_type_alternates of _find_best_regulation
waste_type_alternates(waste_type_key) ==
    CASE waste_type_key = "e_waste" -> <<"e-waste", "electronic", "electronics">>
      [] waste_type_key = "recyclable" -> <<"recycling", "recycle">>
      [] waste_type_key = "hazardous" -> <<"household_hazardous", "hhw">>
      [] waste_type_key = "medical" -> <<"pharmaceutical", "sharps">>
      [] OTHER -> <<>>

\* A lookup that consults the DEFAULT table before the state's table
_find_best_regulation_default_first(location_data, waste_type) ==
    LET st == str_upper(location_data.state)
        waste_type_key == str_lower(waste_type)
        alts == waste_type_alternates(waste_type_key)
        hit == {i \in 1..Len(alts) : alts[i] \in regulation_db_types(st)}
    IN  IF waste_type_key \in regulation_db_types("DEFAULT")
        THEN [found |-> TRUE,
              regulation |-> [regulation_db_entry("DEFAULT", waste_type_key) EXCEPT
                                 !.jurisdiction = <<"Federal Guidelines (State: ", st, ")">>]]
        ELSE IF st # "" /\ st \in {"NY", "CA", "TX", "DEFAULT"}
                /\ waste_type_key \in regulation_db_types(st)
        THEN [found |-> TRUE, regulation |-> regulation_db_entry(st, waste_type_key)]
        ELSE IF st # "" /\ st \in {"NY", "CA", "TX", "DEFAULT"} /\ hit # {}
        THEN [found |-> TRUE,
              regulation |-> regulation_db_entry(st, alts[CHOOSE i \in hit : \A j \in hit : i <= j])]
        ELSE [found |-> FALSE]

\* _find_best_regulation; found = FALSE is the None return
_find_best_regulation(location_data, waste_type) ==
    LET st == str_upper(location_data.state)
        waste_type_key == str_lower(waste_type)
        alts == waste_type_alternates(waste_type_key)
        hit == {i \in 1..Len(alts) : alts[i] \in regulation_db_types(st)}
    IN  IF st # "" /\ st \in {"NY", "CA", "TX", "DEFAULT"}
           /\ waste_type_key \in regulation_db_types(st)
        THEN [found |-> TRUE, regulation |-> regulation_db_entry(st, waste_type_key)]
        ELSE IF st # "" /\ st \in {"NY", "CA", "TX", "DEFAULT"} /\ hit # {}
        THEN [found |-> TRUE,
              regulation |-> regulation_db_entry(st, alts[CHOOSE i \in hit : \A j \in hit : i <= j])]
        ELSE IF waste_type_key \in regulation_db_types("DEFAULT")
        THEN [found |-> TRUE,
              regulation |-> [regulation_db_entry("DEFAULT", waste_type_key) EXCEPT
                                 !.jurisdiction = <<"Federal Guidelines (State: ", st, ")">>]]
        ELSE [found |-> FALSE]

\* _create_fallback_regulation
_create_fallback_regulation(waste_type, location_data) ==
    Regulation(<<"General Guidelines (", location_data.state, ")">>,
               <<"basic_guidance", waste_type>>,
               IF waste_type \in {"e-waste", "medical", "hazardous", "recyclable", "organic"}
               THEN 2 ELSE 1)

\* RegulationLookupTool._run on the JSON the worker passes
regulation_run(location_data, waste_type) ==
    LET r == _find_best_regulation(location_data, waste_type)
    IN  IF r.found THEN r.regulation
        ELSE _create_fallback_regulation(waste_type, location_data)

-----------------------------------------------------------------------------
(* Facility finder tool (tools/location_finder.py) *)

\* a facility dict; distance_km in tenths of a kilometre, phone "" when None
Facility(name, address, phone, accepted, distance, instructions) ==
    [name |-> name, address |-> address, phone |-> phone,
     accepted_waste_types |-> accepted, distance_km |-> distance,
     special_instructions |-> instructions]

\* mock_facilities, by city key, in list order
mock_facilities(location_key) ==
    CASE location_key = "new york" ->
           << Facility("Best Buy Electronics Recycling", "622 Broadway", "(212) 614-1000",
                       {"e-waste"}, 21, <<"Limit 3 items per day.">>),
              Facility("NYC Department of Sanitation Special Waste Drop-Off", "1550 2nd Ave", "(311) 692-9647",
                       {"hazardous", "e-waste"}, 18, <<"NYC residents only.">>),
              Facility("CVS Pharmacy - Drug Take Back", "1619 Broadway", "(212) 247-8384",
                       {"medical"}, 12, <<"No controlled substances.">>),
              Facility("Big Apple Recycling", "2132 Atlantic Ave", "(718) 922-8026",
                       {"recyclable"}, 87, <<"Cash paid for aluminum cans.">>) >>
      [] location_key = "los angeles" ->
           << Facility("UCLA Hazardous Waste Facility", "595 Charles E. Young Dr E", "(310) 825-5662",
                       {"hazardous", "e-waste"}, 32, <<"UCLA community members only.">>),
              Facility("Staples Electronics Recycling", "11041 Santa Monica Blvd", "(310) 231-9979",
                       {"e-waste"}, 41, <<"Fees for monitors.">>),
              Facility("City of LA SAFE Centers", "8840 National Blvd", "(800) 988-6942",
                       {"hazardous", "e-waste", "medical"}, 28, <<"LA residents only.">>) >>
      [] location_key = "chicago" ->
           << Facility("Best Buy Recycling Center", "1000 W North Ave", "(312) 846-5200",
                       {"e-waste"}, 29, <<"$30 fee for tube TVs.">>),
              Facility("Chicago Household Chemical and Computer Recycling", "1150 N North Branch St", "(312) 744-7685",
                       {"hazardous", "e-waste"}, 17, <<"Chicago residents only.">>) >>
      [] OTHER -> <<>>

\* _get_search_location_key: city.lower() looked up in city_mappings,
\* defaulting to new york
_get_search_location_key(location_data) ==
    CASE location_data.city \in {"New York", "Manhattan", "Brooklyn"} -> "new york"
      [] location_data.city \in {"Los Angeles", "Hollywood"} -> "los angeles"
      [] location_data.city = "Chicago" -> "chicago"
      [] OTHER -> "new york"

\* _calculate_distance (haversine, rounded to 0.1 km) from the user's
\* coordinates to a mock facility's coordinates, in tenths of a kilometre
_calculate_distance(coords, name) ==
    CASE coords = "NYC" /\ name = "Best Buy Electronics Recycling" -> 16
      [] coords = "NYC" /\ name = "NYC Department of Sanitation Special Waste Drop-Off" -> 79
      [] coords = "NYC" /\ name = "CVS Pharmacy - Drug Take Back" -> 59
      [] coords = "NYC" /\ name = "Big Apple Recycling" -> 65
      [] coords = "NYC" /\ name = "UCLA Hazardous Waste Facility" -> 39519
      [] coords = "NYC" /\ name = "Staples Electronics Recycling" -> 39546
      [] coords = "NYC" /\ name = "City of LA SAFE Centers" -> 39497
      [] coords = "NYC" /\ name = "Best Buy Recycling Center" -> 11461
      [] coords = "NYC" /\ name = "Chicago Household Chemical and Computer Recycling" -> 11455
      [] coords = "LA" /\ name = "Best Buy Electronics Recycling" -> 39363
      [] coords = "LA" /\ name = "NYC Department of Sanitation Special Waste Drop-Off" -> 39395
      [] coords = "LA" /\ name = "CVS Pharmacy - Drug Take Back" -> 39378
      [] coords = "LA" /\ name = "Big Apple Recycling" -> 39412
      [] coords = "LA" /\ name = "UCLA Hazardous Waste Facility" -> 187
      [] coords = "LA" /\ name = "Staples Electronics Recycling" -> 201
      [] coords = "LA" /\ name = "City of LA SAFE Centers" -> 143
      [] coords = "LA" /\ name = "Best Buy Recycling Center" -> 28028
      [] coords = "LA" /\ name = "Chicago Household Chemical and Computer Recycling" -> 28033

\* Python's [x for x in seq if P(x)] for a set of kept indices
RECURSIVE SelectIdx(_, _, _)
SelectIdx(seq, keep, i) ==
    IF i > Len(seq) THEN <<>>
    ELSE (IF i \in keep THEN <<seq[i]>> ELSE <<>>) \o SelectIdx(seq, keep, i + 1)

\* A mock search that only returns the facilities accepting the waste type
_get_mock_facilities_exact_only(location_data, waste_type) ==
    LET all_facilities == mock_facilities(_get_search_location_key(location_data))
    IN  SelectIdx(all_facilities,
                  {i \in 1..Len(all_facilities) :
                      waste_type \in all_facilities[i].accepted_waste_types}, 1)

\* _get_mock_facilities
_get_mock_facilities(location_data, waste_type) ==
    LET all_facilities == mock_facilities(_get_search_location_key(location_data))
        exact == SelectIdx(all_facilities,
                     {i \in 1..Len(all_facilities) :
                         waste_type \in all_facilities[i].accepted_waste_types}, 1)
        matching ==
            IF exact = <<>> /\ waste_type # "household"
            THEN [i \in 1..Len(all_facilities) |->
                    [all_facilities[i] EXCEPT !.special_instructions =
                        <<"Call ahead to confirm ", waste_type, " acceptance. ">> \o @]]
            ELSE exact
    IN  IF location_data.coords # ""
        THEN [i \in 1..Len(matching) |->
                [matching[i] EXCEPT !.distance_km =
                    _calculate_distance(location_data.coords, matching[i].name)]]
        ELSE matching

\* What _search_google_places may return when a client and coordinates are
\* present: nothing (no result or an API error), or places found by up to three
\* keyword searches, which may find the same place twice.
PlacesResults(waste_type) ==
    LET place(n, d) == Facility(n, n, "", {waste_type}, d,
                                <<"Call ahead to confirm ", waste_type, " acceptance">>)
    IN  { <<>>,
          << place("Place A", 35) >>,
          << place("Place A", 35), place("Place B", 12), place("Place A", 35) >>,
          << place("Place A", 35), place("Place B", 12), place("Place C", 50),
             place("Place D", 20) >> }

\* the dedupe loop of _format_facility_response: one entry per (name, address),
\* at the position of its first occurrence, holding the closest duplicate (the
\* earliest of them: a later one replaces it only when strictly closer)
Dedupe(facilities) ==
    LET n == Len(facilities)
        same(i, j) == /\ facilities[i].name = facilities[j].name
                      /\ facilities[i].address = facilities[j].address
        first == {i \in 1..n : \A j \in 1..(i - 1) : ~same(i, j)}
        kept(i) == CHOOSE j \in 1..n :
                      /\ same(i, j)
                      /\ \A k \in 1..n : same(i, k) =>
                            \/ facilities[j].distance_km < facilities[k].distance_km
                            \/ (facilities[j].distance_km = facilities[k].distance_km /\ j <= k)
    IN  SelectIdx([i \in 1..n |-> facilities[kept(i)]], first, 1)

\* sorted(..., key=distance_km): a stable sort; an element's place is the
\* number of elements that sort before it
SortByDistance(seq) ==
    LET n == Len(seq)
        before(j, i) == \/ seq[j].distance_km < seq[i].distance_km
                        \/ (seq[j].distance_km = seq[i].distance_km /\ j < i)
        place(i) == Cardinality({j \in 1..n : before(j, i)}) + 1
    IN  [p \in 1..n |-> seq[CHOOSE i \in 1..n : place(i) = p]]

\* the number of facilities _format_facility_response keeps
MaxFacilities == 10

\* DisposalLocation(...).dict(): accepted types go through
\* WasteType(wt.replace('-', '_')), which no enumeration value with a '-' survives
DisposalLocationDict(f) ==
    [f EXCEPT !.accepted_waste_types = (@ \cap WasteTypes) \ {"e-waste"}]

\* _format_facility_response: the 'facilities' list of the JSON answer.  The
\* intermediate lists (unique_facilities, sorted_facilities) are bound as
\* values, each computed once.
_format_facility_response(facilities) ==
    LET Top(sorted_facilities) ==
            [i \in 1..Min(Len(sorted_facilities), MaxFacilities) |->
                DisposalLocationDict(sorted_facilities[i])]
    IN  CHOOSE r \in {Top(sorted_facilities) :
                        sorted_facilities \in
                            {SortByDistance(unique_facilities) :
                                unique_facilities \in
                                    {Dedupe(f) : f \in {facilities}}}} : TRUE

\* LocationFinderTool._run on the JSON the worker passes; places is what the
\* Google Places search returns when it is used
location_finder_run(location_data, waste_type, client, places) ==
    LET searched == IF client /\ location_data.coords # "" THEN places ELSE <<>>
    IN  IF searched = <<>>
        THEN _format_facility_response(_get_mock_facilities(location_data, waste_type))
        ELSE _format_facility_response(searched)

-----------------------------------------------------------------------------
(* Worker agent: one operation per stage, each `run(state) -> state` *)

\* dict.get(key): the value, or None for a key the dict lacks
Get(d, key) == IF key \in DOMAIN d THEN d[key] ELSE None

\* the location dict a tool receives: state.get('user_location', {}) returns
\* the stored value, and a tool reads a missing key as ''
LocationArg(s) ==
    IF s.user_location.t = "dict" /\ s.user_location.n > 0
    THEN s.user_location.v
    ELSE Location("", "", <<>>, "", "")

\* the waste type a tool receives
WasteTypeArg(s) == IF s.waste_type.t = "str" THEN s.waste_type.v ELSE "None"

\* A classify stage whose except branch records the error but writes no
\* fallback into waste_type
classify_waste_no_fallback(s, raises, response) ==
    IF raises
    THEN [s EXCEPT !.error_message = Str("Classification error")]
    ELSE LET written(result_dict) ==
                 [s EXCEPT !.waste_type = Str(result_dict.primary_type),
                           !.waste_classification = Dict(result_dict),
                           !.confidence_score = Num(result_dict.confidence)]
         IN  CHOOSE r \in {written(d) : d \in {classifier_run(s.user_query, response)}} : TRUE

\* A classify stage that stores the lower-cased query back into the state
classify_waste_lowercases_query(s, raises, response) ==
    IF raises
    THEN [s EXCEPT !.user_query = Lower(s.user_query),
                   !.waste_type = Str("household"),
                   !.error_message = Str("Classification error")]
    ELSE LET written(result_dict) ==
                 [s EXCEPT !.user_query = Lower(s.user_query),
                           !.waste_type = Str(result_dict.primary_type),
                           !.waste_classification = Dict(result_dict),
                           !.confidence_score = Num(result_dict.confidence)]
         IN  CHOOSE r \in {written(d) : d \in {classifier_run(s.user_query, response)}} : TRUE

\* WorkerAgent.classify_waste; raises: the classifier call raised
classify_waste(s, raises, response) ==
    IF raises
    THEN [s EXCEPT !.waste_type = Str("household"),
                   !.error_message = Str("Classification error")]
    ELSE LET written(result_dict) ==
                 [s EXCEPT !.waste_type = Str(result_dict.primary_type),
                           !.waste_classification = Dict(result_dict),
                           !.confidence_score = Num(result_dict.confidence)]
         IN  CHOOSE r \in {written(d) : d \in {classifier_run(s.user_query, response)}} : TRUE

\* A location stage that also initialises the facility list
get_location_writes_facilities(s, raises, ip, rev) ==
    IF raises
    THEN [s EXCEPT !.user_location = Dict(Location("New York", "NY", <<>>, "", "US")),
                   !.disposal_locations = List(<<>>),
                   !.error_message = Str("Location error")]
    ELSE [s EXCEPT !.user_location = Dict(geolocation_run(ip, rev)),
                   !.disposal_locations = List(<<>>)]

\* WorkerAgent.get_location; raises: the geolocation call raised
get_location(s, raises, ip, rev) ==
    IF raises
    THEN [s EXCEPT !.user_location = Dict(Location("New York", "NY", <<>>, "", "US")),
                   !.error_message = Str("Location error")]
    ELSE [s EXCEPT !.user_location = Dict(geolocation_run(ip, rev))]

\* the emergency fallback of RegulationLookupTool._run, which a None location
\* or waste type raises into
EmergencyRegulation ==
    Regulation(<<"General Guidelines">>,
               <<"Please check with local waste management authorities for proper disposal methods.">>,
               1)

\* A regulation stage whose except branch also writes an apology as the answer
lookup_regulations_writes_response(s, raises) ==
    IF raises
    THEN [s EXCEPT !.local_regulations =
                       Dict(Regulation(<<"General Guidelines">>,
                            <<"Please check with local waste management authorities.">>, 0)),
                   !.final_response = Text(<< <<"Sorry, regulations are unavailable.">> >>),
                   !.error_message = Str("Regulation error")]
    ELSE IF s.user_location = None \/ s.waste_type.t # "str"
    THEN [s EXCEPT !.local_regulations = Dict(EmergencyRegulation)]
    ELSE [s EXCEPT !.local_regulations =
                       Dict(regulation_run(LocationArg(s), WasteTypeArg(s)))]

\* A regulation stage whose except branch stores an empty dict
lookup_regulations_empty_fallback(s, raises) ==
    IF raises
    THEN [s EXCEPT !.local_regulations = EmptyDict,
                   !.error_message = Str("Regulation error")]
    ELSE IF s.user_location = None \/ s.waste_type.t # "str"
    THEN [s EXCEPT !.local_regulations = Dict(EmergencyRegulation)]
    ELSE [s EXCEPT !.local_regulations =
                       Dict(regulation_run(LocationArg(s), WasteTypeArg(s)))]

\* WorkerAgent.lookup_regulations; raises: the regulation lookup call raised
lookup_regulations(s, raises) ==
    IF raises
    THEN [s EXCEPT !.local_regulations =
                       Dict(Regulation(<<"General Guidelines">>,
                            <<"Please check with local waste management authorities.">>, 0)),
                   !.error_message = Str("Regulation error")]
    ELSE IF s.user_location = None \/ s.waste_type.t # "str"
    THEN [s EXCEPT !.local_regulations = Dict(EmergencyRegulation)]
    ELSE [s EXCEPT !.local_regulations =
                       Dict(regulation_run(LocationArg(s), WasteTypeArg(s)))]

\* A facility stage whose except branch clears the field instead of writing []
find_locations_clears_on_error(s, raises, client, places) ==
    IF raises
    THEN [s EXCEPT !.disposal_locations = None,
                   !.error_message = Str("Location finder error")]
    ELSE IF s.user_location = None
    THEN [s EXCEPT !.disposal_locations = List(<<>>)]
    ELSE [s EXCEPT !.disposal_locations =
                       List(location_finder_run(LocationArg(s), WasteTypeArg(s),
                                                client, places))]

\* WorkerAgent.find_locations; raises: the facility finder call raised
find_locations(s, raises, client, places) ==
    IF raises
    THEN [s EXCEPT !.disposal_locations = List(<<>>),
                   !.error_message = Str("Location finder error")]
    ELSE IF s.user_location = None
    THEN [s EXCEPT !.disposal_locations = List(<<>>)]
    ELSE [s EXCEPT !.disposal_locations =
                       List(location_finder_run(LocationArg(s), WasteTypeArg(s),
                                                client, places))]

-----------------------------------------------------------------------------
(* Response synthesizer *)

\* str.title() on a waste type
Title(waste_type) ==
    CASE waste_type = "e-waste" -> "E-Waste"
      [] waste_type = "medical" -> "Medical"
      [] waste_type = "hazardous" -> "Hazardous"
      [] waste_type = "recyclable" -> "Recyclable"
      [] waste_type = "organic" -> "Organic"
      [] waste_type = "household" -> "Household"
      [] waste_type = "unknown" -> "Unknown"
      [] OTHER -> waste_type

\* A slice that keeps the whole list
Take_all(seq, n) == seq

\* seq[:n]
Take(seq, n) == SubSeq(seq, 1, Min(Len(seq), n))

\* the facilities and preparation steps a report shows
TopN == 3

\* the lines one listed facility contributes to the fallback report
FacilityLines(i, f) ==
    << <<i, ". **", f.name, "** - ", f.address, " (", f.distance_km, "km)">> >>
    \o (IF f.phone # "" THEN << <<"   Phone: ", f.phone>> >> ELSE <<>>)
    \o (IF f.special_instructions # <<>>
        THEN << <<"   Note: ">> \o f.special_instructions >> ELSE <<>>)

RECURSIVE FacilitySection(_, _)
FacilitySection(locations, i) ==
    IF i > Len(locations) THEN <<>>
    ELSE FacilityLines(i, locations[i]) \o FacilitySection(locations, i + 1)

\* A fallback synthesizer that builds on the answer already in the state
_generate_fallback_response_appends(s) ==
    IF s.final_response.t = "text"
    THEN Text(s.final_response.v \o << <<"(regenerated)">> >>)
    ELSE Text(<< <<"## ", Title(WasteTypeArg(s)), " Disposal Guidance">>,
                 <<"**Next Steps:**">> >>)

\* SupervisorAgent._generate_fallback_response: the report, line by line
_generate_fallback_response(s) ==
    LET waste_type == WasteTypeArg(s)
        location_data == LocationArg(s)
        city == IF location_data.city = "" /\ ~Truthy(s.user_location)
                THEN "your area" ELSE location_data.city
        state_name == IF location_data.state = "" /\ ~Truthy(s.user_location)
                      THEN "your state" ELSE location_data.state
        locations == IF s.disposal_locations.t = "list"
                     THEN s.disposal_locations.v ELSE <<>>
        header == << <<"## ", Title(waste_type), " Disposal Guidance for ",
                       city, ", ", state_name>>,
                     <<"**Waste Classification:** Your waste has been classified as ",
                       waste_type, ".">> >>
        regulation_lines ==
            IF Truthy(s.local_regulations)
            THEN LET regulations == s.local_regulations.v
                     prep_steps == regulations.preparation_steps
                 IN  << <<"**Local Regulations:**">>, <<"- ">> \o regulations.rules >>
                     \o (IF prep_steps # <<>>
                         THEN << <<"**Preparation Steps:**">> >>
                              \o [k \in 1..Len(Take(prep_steps, TopN)) |->
                                    <<"- ">> \o prep_steps[k]]
                         ELSE <<>>)
            ELSE <<>>
        location_lines ==
            IF locations # <<>>
            THEN << <<"**Disposal Locations Near You:**">> >>
                 \o FacilitySection(Take(locations, TopN), 1)
            ELSE << <<"**Disposal Options:**">>,
                    <<"- Contact your local waste management service">>,
                    <<"- Check with municipal recycling programs">>,
                    <<"- Search online for local disposal facilities">> >>
        next_steps ==
            << <<"**Next Steps:**">>,
               <<"1. Follow any preparation requirements listed above">>,
               <<"2. Contact the facility to confirm they accept your waste type">>,
               <<"3. Check facility hours and any fees">>,
               <<"4. Transport your waste safely to the disposal location">> >>
    IN  Text(header \o regulation_lines \o location_lines \o next_steps)

\* What the text-generation model may do: raise, or answer some text, which
\* may be empty.
LlmTexts ==
    {[kind |-> "raise"],
     [kind |-> "text", content |-> <<"generated response">>],
     [kind |-> "text", content |-> <<>>]}

\* A synthesizer whose except branch gives up with an empty answer
generate_final_response_no_fallback(s, llm) ==
    IF llm.kind = "raise" THEN Text(<<>>)
    ELSE Text(llm.content)

\* SupervisorAgent.generate_final_response
generate_final_response(s, llm) ==
    IF llm.kind = "raise" THEN _generate_fallback_response(s)
    ELSE Text(llm.content)

-----------------------------------------------------------------------------
(* Workflow graph and driver *)

\* the location hints process_query is called with: none, an empty dict, a dict
Hints ==
    {None, EmptyDict, Dict(Location("Chicago", "IL", <<>>, "", "US"))}

\* An initial state that already carries a waste type
InitialState_preclassified(user_query, user_location) ==
    [user_query |-> user_query,
     user_location |-> user_location,
     waste_type |-> Str("household"),
     waste_classification |-> None,
     local_regulations |-> None,
     disposal_locations |-> None,
     final_response |-> None,
     guidance_steps |-> None,
     error_message |-> None,
     processing_step |-> None,
     confidence_score |-> None]

\* the initial_state of process_query
InitialState(user_query, user_location) ==
    [user_query |-> user_query,
     user_location |-> user_location,
     waste_type |-> None,
     waste_classification |-> None,
     local_regulations |-> None,
     disposal_locations |-> None,
     final_response |-> None,
     guidance_steps |-> None,
     error_message |-> None,
     processing_step |-> None,
     confidence_score |-> None]

Init ==
    /\ \E q \in Queries, hint \in Hints :
          /\ call = [user_query |-> q, user_location |-> hint]
          /\ state = InitialState(q, hint)
    /\ pc = "supervisor"
    /\ steps = 0
    /\ result = None
    /\ trace = <<>>
    /\ raised = {}
    /\ answered = {}
    /\ gmaps_client \in BOOLEAN
    /\ llm_raised = FALSE

\* _supervisor_node
_supervisor_node(s) == [s EXCEPT !.processing_step = Str(plan_next_action(s))]

\* _generate_response_node
_generate_response_node(s, llm) ==
    [s EXCEPT !.final_response = generate_final_response(s, llm)]

\* A graph in which the classify stage hands over to get_location itself
WorkerEdge_chains(node) ==
    IF node = "classify_waste" THEN "get_location" ELSE "supervisor"

\* A graph in which find_locations hands over to generate_response itself
WorkerEdge_skips_supervisor(node) ==
    IF node = "find_locations" THEN "generate_response" ELSE "supervisor"

\* the edge add_edge gives a worker node: back to the supervisor
WorkerEdge(node) == "supervisor"

\* A graph whose generate_response node routes back to the supervisor
ResponseEdge_to_supervisor == "supervisor"

\* the edge of generate_response: END
ResponseEdge == "END"

\* one super-step of the compiled graph may start
MayStep(node) == pc = node /\ steps < RecursionLimit /\ result = None

\* bookkeeping shared by the worker node steps
Ran(node, raises) ==
    /\ steps' = steps + 1
    /\ trace' = Append(trace, node)
    /\ raised' = IF raises THEN raised \cup {node} ELSE raised
    /\ answered' = IF raises THEN answered ELSE answered \cup {node}
    /\ UNCHANGED <<result, gmaps_client, call, llm_raised>>

SupervisorNode ==
    /\ MayStep("supervisor")
    /\ state' = _supervisor_node(state)
    /\ pc' = ConditionalEdge(_route_next_action(state'))
    /\ steps' = steps + 1
    /\ UNCHANGED <<result, trace, raised, answered, gmaps_client, call, llm_raised>>

ClassifyWasteNode ==
    /\ MayStep("classify_waste")
    /\ \E raises \in BOOLEAN, response \in LlmClassifications :
          /\ state' = classify_waste(state, raises, response)
          /\ Ran("classify_waste", raises)
    /\ pc' = WorkerEdge("classify_waste")

GetLocationNode ==
    /\ MayStep("get_location")
    /\ \E raises \in BOOLEAN, ip \in IpResponses,
          rev \in (IF gmaps_client THEN ReverseGeocodes ELSE {[found |-> FALSE]}) :
          /\ state' = get_location(state, raises, ip, rev)
          /\ Ran("get_location", raises)
    /\ pc' = WorkerEdge("get_location")

LookupRegulationsNode ==
    /\ MayStep("lookup_regulations")
    /\ \E raises \in BOOLEAN :
          /\ state' = lookup_regulations(state, raises)
          /\ Ran("lookup_regulations", raises)
    /\ pc' = WorkerEdge("lookup_regulations")

FindLocationsNode ==
    /\ MayStep("find_locations")
    /\ \E raises \in BOOLEAN, places \in PlacesResults(WasteTypeArg(state)) :
          /\ state' = find_locations(state, raises, gmaps_client, places)
          /\ Ran("find_locations", raises)
    /\ pc' = WorkerEdge("find_locations")

GenerateResponseNode ==
    /\ MayStep("generate_response")
    /\ \E llm \in LlmTexts :
          /\ state' = _generate_response_node(state, llm)
          /\ llm_raised' = (llm.kind = "raise")
    /\ pc' = ResponseEdge
    /\ steps' = steps + 1
    /\ trace' = Append(trace, "generate_response")
    /\ UNCHANGED <<result, raised, answered, gmaps_client, call>>

\* the dict process_query returns when ainvoke returns final_state
SuccessResult(user_query, final_state) ==
    [success |-> TRUE,
     user_query |-> user_query,
     waste_type |-> final_state.waste_type,
     user_location |-> final_state.user_location,
     final_response |-> final_state.final_response,
     waste_classification |-> final_state.waste_classification,
     local_regulations |-> final_state.local_regulations,
     disposal_locations |-> final_state.disposal_locations,
     confidence_score |-> final_state.confidence_score,
     error_message |-> final_state.error_message]

ApologyResponse ==
    Text(<< <<"Sorry, I encountered an error processing your request. Please try again or contact local waste management services.">> >>)

\* An except branch that reports the failed run as a success
FailureResult_reports_success(user_query, e) ==
    [success |-> TRUE,
     user_query |-> user_query,
     error_message |-> Str(e),
     final_response |-> ApologyResponse]

\* An except branch that drops the exception text
FailureResult_without_message(user_query, e) ==
    [success |-> FALSE,
     user_query |-> user_query,
     error_message |-> None,
     final_response |-> ApologyResponse]

\* the dict process_query returns from its except branch
FailureResult(user_query, e) ==
    [success |-> FALSE,
     user_query |-> user_query,
     error_message |-> Str(e),
     final_response |-> ApologyResponse]

\* ainvoke returned: the graph reached END
ReturnResult ==
    /\ pc = "END"
    /\ result = None
    /\ result' = SuccessResult(call.user_query, state)
    /\ pc' = "returned"
    /\ UNCHANGED <<state, steps, trace, raised, answered, gmaps_client, call, llm_raised>>

\* A driver without the failure boundary: the exception leaves process_query
RecursionLimitReached_escapes ==
    /\ pc \in StageNodes \cup {"supervisor"}
    /\ steps >= RecursionLimit
    /\ result = None
    /\ pc' = "raised"
    /\ UNCHANGED <<state, steps, result, trace, raised, answered, gmaps_client, call, llm_raised>>

\* ainvoke raised GraphRecursionError: the step budget ran out before END;
\* process_query's except branch builds the result
RecursionLimitReached ==
    /\ pc \in StageNodes \cup {"supervisor"}
    /\ steps >= RecursionLimit
    /\ result = None
    /\ result' = FailureResult(call.user_query, "Recursion limit reached")
    /\ pc' = "returned"
    /\ UNCHANGED <<state, steps, trace, raised, answered, gmaps_client, call, llm_raised>>

Next ==
    \/ SupervisorNode
    \/ ClassifyWasteNode
    \/ GetLocationNode
    \/ LookupRegulationsNode
    \/ FindLocationsNode
    \/ GenerateResponseNode
    \/ ReturnResult
    \/ RecursionLimitReached

Spec == Init /\ [][Next]_vars

\* process_query is awaited to completion: every enabled step is taken
FairSpec == Spec /\ WF_vars(Next)

-----------------------------------------------------------------------------
(* Two process_query calls awaited concurrently on one workflow object.  In
   this specification every per-call variable is a function over Runs; the
   tools, the supervisor and the compiled graph are shared and hold no
   per-call data, gmaps_client is the one shared attribute the nodes read. *)

Runs == {1, 2}

\* the collaborator answers drawn in the concurrent specification
ConcurrentQueries == {LaptopQuery, EmptyQuery}
ConcurrentClassifications ==
    {[kind |-> "raise"],
     [kind |-> "json", primary_type |-> "glass", confidence |-> 95,
      hazard_level |-> "medium", special_handling |-> TRUE]}
ConcurrentIpResponses ==
    {[kind |-> "fail"],
     [kind |-> "ok", city |-> "Los Angeles", region |-> "California",
      postal |-> <<9,0,0,1,2>>, coords |-> "LA"]}

\* A workflow object that keeps one state instance and hands it to every call
StateOf_shared(states, q) == states[1]

\* the state instance the nodes of call q work on: the initial_state that call
\* created, threaded through its own ainvoke
StateOf(states, q) == states[q]

ConcurrentInit ==
    /\ call \in [Runs -> {[user_query |-> qu, user_location |-> None] : qu \in ConcurrentQueries}]
    /\ state = [q \in Runs |-> InitialState(call[q].user_query, call[q].user_location)]
    /\ pc = [q \in Runs |-> "supervisor"]
    /\ steps = [q \in Runs |-> 0]
    /\ result = [q \in Runs |-> None]
    /\ trace = [q \in Runs |-> <<>>]
    /\ raised = [q \in Runs |-> {}]
    /\ answered = [q \in Runs |-> {}]
    /\ llm_raised = [q \in Runs |-> FALSE]
    /\ gmaps_client \in BOOLEAN

\* a node of call q may run
ConcurrentMayStep(q, node) ==
    pc[q] = node /\ steps[q] < RecursionLimit /\ result[q] = None

\* call q ran a node that left new_state and hands over to next
ConcurrentRan(q, node, new_state, next) ==
    /\ state' = [state EXCEPT ![q] = new_state]
    /\ pc' = [pc EXCEPT ![q] = next]
    /\ steps' = [steps EXCEPT ![q] = @ + 1]
    /\ trace' = IF node = "supervisor" THEN trace
                ELSE [trace EXCEPT ![q] = Append(@, node)]
    /\ UNCHANGED <<result, gmaps_client, call>>

ConcurrentSupervisorNode ==
    \E q \in Runs :
        /\ ConcurrentMayStep(q, "supervisor")
        /\ ConcurrentRan(q, "supervisor", _supervisor_node(StateOf(state, q)),
                         ConditionalEdge(_route_next_action(_supervisor_node(StateOf(state, q)))))
        /\ UNCHANGED <<raised, answered, llm_raised>>

ConcurrentClassifyWasteNode ==
    \E q \in Runs, response \in ConcurrentClassifications :
        /\ ConcurrentMayStep(q, "classify_waste")
        /\ ConcurrentRan(q, "classify_waste",
                         classify_waste(StateOf(state, q), FALSE, response),
                         WorkerEdge("classify_waste"))
        /\ answered' = [answered EXCEPT ![q] = @ \cup {"classify_waste"}]
        /\ UNCHANGED <<raised, llm_raised>>

ConcurrentGetLocationNode ==
    \E q \in Runs, ip \in ConcurrentIpResponses :
        /\ ConcurrentMayStep(q, "get_location")
        /\ ConcurrentRan(q, "get_location",
                         get_location(StateOf(state, q), FALSE, ip, [found |-> FALSE]),
                         WorkerEdge("get_location"))
        /\ answered' = [answered EXCEPT ![q] = @ \cup {"get_location"}]
        /\ UNCHANGED <<raised, llm_raised>>

ConcurrentLookupRegulationsNode ==
    \E q \in Runs, raises \in BOOLEAN :
        /\ ConcurrentMayStep(q, "lookup_regulations")
        /\ ConcurrentRan(q, "lookup_regulations",
                         lookup_regulations(StateOf(state, q), raises),
                         WorkerEdge("lookup_regulations"))
        /\ raised' = IF raises THEN [raised EXCEPT ![q] = @ \cup {"lookup_regulations"}]
                     ELSE raised
        /\ answered' = IF raises THEN answered
                       ELSE [answered EXCEPT ![q] = @ \cup {"lookup_regulations"}]
        /\ UNCHANGED llm_raised

ConcurrentFindLocationsNode ==
    \E q \in Runs :
        /\ ConcurrentMayStep(q, "find_locations")
        /\ ConcurrentRan(q, "find_locations",
                         find_locations(StateOf(state, q), FALSE, gmaps_client, <<>>),
                         WorkerEdge("find_locations"))
        /\ answered' = [answered EXCEPT ![q] = @ \cup {"find_locations"}]
        /\ UNCHANGED <<raised, llm_raised>>

ConcurrentGenerateResponseNode ==
    \E q \in Runs, llm \in LlmTexts :
        /\ ConcurrentMayStep(q, "generate_response")
        /\ ConcurrentRan(q, "generate_response",
                         _generate_response_node(StateOf(state, q), llm), ResponseEdge)
        /\ llm_raised' = [llm_raised EXCEPT ![q] = (llm.kind = "raise")]
        /\ UNCHANGED <<raised, answered>>

ConcurrentReturnResult ==
    \E q \in Runs :
        /\ pc[q] = "END"
        /\ result[q] = None
        /\ result' = [result EXCEPT ![q] = SuccessResult(call[q].user_query, StateOf(state, q))]
        /\ pc' = [pc EXCEPT ![q] = "returned"]
        /\ UNCHANGED <<state, steps, trace, raised, answered, gmaps_client, call, llm_raised>>

ConcurrentRecursionLimitReached ==
    \E q \in Runs :
        /\ pc[q] \in StageNodes \cup {"supervisor"}
        /\ steps[q] >= RecursionLimit
        /\ result[q] = None
        /\ result' = [result EXCEPT ![q] = FailureResult(call[q].user_query, "Recursion limit reached")]
        /\ pc' = [pc EXCEPT ![q] = "returned"]
        /\ UNCHANGED <<state, steps, trace, raised, answered, gmaps_client, call, llm_raised>>

ConcurrentNext ==
    \/ ConcurrentSupervisorNode
    \/ ConcurrentClassifyWasteNode
    \/ ConcurrentGetLocationNode
    \/ ConcurrentLookupRegulationsNode
    \/ ConcurrentFindLocationsNode
    \/ ConcurrentGenerateResponseNode
    \/ ConcurrentReturnResult
    \/ ConcurrentRecursionLimitReached

ConcurrentSpec == ConcurrentInit /\ [][ConcurrentNext]_vars

-----------------------------------------------------------------------------
(* The tools called directly, as the test scripts call them: _run(query) *)

\* dict.get(key, default)
DictGet(d, key, default) ==
    IF d.n > 0 /\ key \in DOMAIN d.v THEN d.v[key] ELSE default

\* a str that json.loads accepts, kept as the document it parses to
Json(doc) == [t |-> "json", v |-> doc]

\* str.split(sep) of a str kept as its pieces (Text): a piece equal to sep is
\* an occurrence of the separator, the pieces between two occurrences are
\* joined into one part
RECURSIVE Join(_)
Join(pieces) == IF pieces = <<>> THEN "" ELSE Head(pieces) \o Join(Tail(pieces))
Split(pieces, sep) ==
    LET n == Len(pieces)
        cuts == {i \in 1..n : pieces[i] = sep}
        \* the k-th cut position, 0 before the first and n + 1 after the last
        cut(k) == IF k = 0 THEN 0
                  ELSE IF k > Cardinality(cuts) THEN n + 1
                  ELSE CHOOSE i \in cuts : Cardinality({j \in cuts : j < i}) = k - 1
    IN  [k \in 1..(Cardinality(cuts) + 1) |->
            Join(SubSeq(pieces, cut(k - 1) + 1, cut(k) - 1))]

\* an outcome of a try body: an exception, or a value
Raised == [raised |-> TRUE]
Returned(v) == [raised |-> FALSE, value |-> v]

\* _format_regulation_response: the validated RegulationInfo dump when
\* WasteType(waste_type.lower()) exists, else the regulation dict as it is
_format_regulation_response(regulation_data, waste_type) ==
    IF str_lower(waste_type) \in WasteTypes
    THEN [jurisdiction |-> regulation_data.jurisdiction,
          waste_type |-> str_lower(waste_type),
          rules |-> regulation_data.rules,
          preparation_steps |-> regulation_data.preparation_steps]
    ELSE regulation_data

\* the parsing step of RegulationLookupTool._run: JSON, or the
\* 'waste_type in location' form
regulation_query_data(query) ==
    LET parts == Split(query.v, " in ")
    IN  IF query.t = "json" THEN Returned(query.v)
        ELSE IF query.t # "text" THEN Returned(query)
        ELSE IF Len(parts) = 2
        THEN Returned(Dict([waste_type |-> Str(parts[1]),
                            location |-> Dict([state |-> Str(str_upper(parts[2])),
                                               city |-> Str("Unknown")])]))
        ELSE Raised

\* the try body of RegulationLookupTool._run
RegulationLookupTool_try(query) ==
    LET query_data == regulation_query_data(query)
        lookup(d) ==
            LET location_data == DictGet(d, "location", EmptyDict)
                waste_type == DictGet(d, "waste_type", Str("household"))
                found(loc) ==
                    LET r == _find_best_regulation(loc, waste_type.v)
                    IN  IF r.found THEN r.regulation
                        ELSE _create_fallback_regulation(waste_type.v,
                                 [loc EXCEPT !.state =
                                     DictGet(location_data, "state", Str("your area")).v])
            IN  IF location_data.t # "dict" THEN Raised
                ELSE IF DictGet(location_data, "state", Str("")).t # "str" THEN Raised
                ELSE IF DictGet(location_data, "city", Str("")).t # "str" THEN Raised
                ELSE IF waste_type.t # "str" THEN Raised
                ELSE Returned(_format_regulation_response(
                         found(Location(DictGet(location_data, "city", Str("")).v,
                                        DictGet(location_data, "state", Str("")).v,
                                        <<>>, "", "")),
                         waste_type.v))
    IN  IF query_data.raised THEN Raised
        ELSE IF query_data.value.t # "dict" THEN Raised
        ELSE lookup(query_data.value)

\* A lookup tool without its outer except: the exception reaches the caller
RegulationLookupTool_run_unguarded(query) ==
    RegulationLookupTool_try(query)

\* RegulationLookupTool._run: the try body, or the emergency fallback
RegulationLookupTool_run(query) ==
    IF RegulationLookupTool_try(query).raised
    THEN Returned(EmergencyRegulation)
    ELSE RegulationLookupTool_try(query)

\* the inputs the regulation tool is called with
TypeDocs ==
    {None, Num(3), Str(""), Str("unknown"), Str("e-waste"), Str("e_waste"),
     Str("E-WASTE"), Str("medical"), Str("household"), Str("organic")}
RegulationLocationDocs ==
    {None, EmptyDict,
     Dict([state |-> Str("INVALID")]),
     Dict([state |-> Str(""), city |-> Str("")]),
     Dict([state |-> Str("NY"), city |-> Str("New York")]),
     Dict([state |-> Str("ca"), city |-> Str("Los Angeles")]),
     Dict([state |-> Str("TX"), city |-> None]),
     Dict([state |-> None, city |-> Str("Houston")]),
     Dict([state |-> Str("IL"), city |-> Str("Chicago")]),
     Dict([state |-> Str("DEFAULT"), city |-> Str("Chicago")])}
RegulationQueries ==
    {Text(<<>>), Text(<<"invalid json">>),
     Text(<<"e-waste", " in ", "ny">>), Text(<<" in ", "TX">>),
     Text(<<"glass", " in ", "IL">>),
     Text(<<"e-waste", " in ", "NY", " in ", "NYC">>),
     Json(None), Json(Num(5)), Json(EmptyDict),
     Dict([waste_type |-> Str("medical"),
           location |-> Dict([state |-> Str("NY"), city |-> Str("Albany")])])}
    \cup {Json(Dict([location |-> l, waste_type |-> w])) :
            l \in RegulationLocationDocs, w \in TypeDocs}
    \cup {Json(Dict([location |-> l])) : l \in RegulationLocationDocs}
    \cup {Json(Dict([waste_type |-> w])) : w \in TypeDocs}

\* A response whose count is taken from the list the search returned, before
\* duplicates are removed
facility_response_counts_input(facilities, disposal_locations) ==
    [facilities_found |-> Len(facilities), facilities |-> disposal_locations]

\* the response dict of _format_facility_response: facilities is the list the
\* search returned, disposal_locations the validated ones
facility_response(facilities, disposal_locations) ==
    [facilities_found |-> Len(disposal_locations), facilities |-> disposal_locations]

\* the emergency fallback of LocationFinderTool._run
EmergencyFacilities == [facilities_found |-> 0, facilities |-> <<>>]

\* float(latitude), float(longitude) succeed
Numeric(coords) == coords.t = "str" /\ coords.v \in {"NYC", "LA"}

\* the parsing step of LocationFinderTool._run: JSON, or the
\* 'waste_type near location' form with the default state NY
finder_query_data(query) ==
    LET parts == Split(query.v, " near ")
    IN  IF query.t = "json" THEN Returned(query.v)
        ELSE IF query.t # "text" THEN Returned(query)
        ELSE IF \E i \in 1..Len(query.v) : query.v[i] = " near "
        THEN Returned(Dict([waste_type |-> Str(parts[1]),
                            location |-> Dict([city |-> Str(parts[2]),
                                               state |-> Str("NY")])]))
        ELSE Raised

\* the try body of LocationFinderTool._run; places is what the Google Places
\* search returns when it is used
LocationFinderTool_try(query, client, places) ==
    LET query_data == finder_query_data(query)
        search(d) ==
            LET location_data == DictGet(d, "location", EmptyDict)
                waste_type == DictGet(d, "waste_type", Str("household"))
                city == DictGet(location_data, "city", Str(""))
                st == DictGet(location_data, "state", Str(""))
                coords == DictGet(location_data, "coords", None)
                loc == Location(city.v, st.v, <<>>,
                                IF Truthy(coords) THEN coords.v ELSE "", "")
                facilities == IF client /\ Truthy(coords) THEN places ELSE <<>>
            IN  IF location_data.t # "dict" THEN Raised
                ELSE IF Truthy(coords) /\ ~Numeric(coords) THEN Raised
                ELSE IF facilities # <<>> /\ waste_type.t # "str"
                \* every place lists the waste type itself as accepted, and
                \* wt.replace fails on it: each DisposalLocation is skipped
                THEN Returned(facility_response(facilities, <<>>))
                ELSE IF facilities # <<>>
                THEN Returned(facility_response(facilities,
                                  _format_facility_response(facilities)))
                ELSE IF city.t # "str" \/ st.t # "str" THEN Raised
                ELSE Returned(facility_response(
                         _get_mock_facilities(loc, WasteTypeArg([waste_type |-> waste_type])),
                         location_finder_run(loc, WasteTypeArg([waste_type |-> waste_type]),
                                             FALSE, <<>>)))
    IN  IF query_data.raised THEN Raised
        ELSE IF query_data.value.t # "dict" THEN Raised
        ELSE search(query_data.value)

\* LocationFinderTool._run: the try body, or the emergency fallback
LocationFinderTool_run(query, client, places) ==
    IF LocationFinderTool_try(query, client, places).raised
    THEN Returned(EmergencyFacilities)
    ELSE LocationFinderTool_try(query, client, places)

\* the inputs the facility finder is called with
FinderLocationDocs ==
    {None, EmptyDict,
     Dict([city |-> Str("NonexistentCity"), state |-> Str("ZZ")]),
     Dict([city |-> Str("New York"), state |-> Str("NY"), coords |-> Str("NYC")]),
     Dict([city |-> Str("Los Angeles"), state |-> Str("CA"), coords |-> Str("LA")]),
     Dict([city |-> Str("Chicago"), state |-> Str("IL")]),
     Dict([city |-> Str("Chicago"), state |-> Str("IL"), coords |-> Str("north")]),
     Dict([city |-> None, state |-> Str("NY"), coords |-> Str("NYC")]),
     Dict([city |-> Str("Brooklyn"), state |-> None])}
FinderTypeDocs ==
    {None, Str(""), Str("unknown"), Str("e-waste"), Str("medical"),
     Str("hazardous"), Str("recyclable"), Str("organic"), Str("household")}
FinderQueries ==
    {Text(<<>>), Text(<<"invalid json">>),
     Text(<<"e-waste", " near ", "Chicago">>),
     Text(<<"household", " near ", "NYC">>),
     Json(None), Json(List(<<>>)), Json(EmptyDict)}
    \cup {Json(Dict([location |-> l, waste_type |-> w])) :
            l \in FinderLocationDocs, w \in FinderTypeDocs}
    \cup {Json(Dict([location |-> l])) : l \in FinderLocationDocs}

\* the try body of WasteClassificationTool._run: the model call raises, or
\* the result fails the confidence range validation, or a result is returned
WasteClassificationTool_try(waste_description, response) ==
    LET p == _parse_llm_response(response)
        c == IF p.parsed THEN p.data ELSE _fallback_classification(waste_description)
    IN  IF response.kind = "raise" THEN Raised
        ELSE IF c.confidence < 0 \/ c.confidence > 100 THEN Raised
        ELSE Returned(ClassificationResult(c, c.reasoning))

\* A classifier without its except branch: the exception reaches the caller
WasteClassificationTool_run_unguarded(waste_description, response) ==
    WasteClassificationTool_try(waste_description, response)

\* WasteClassificationTool._run: the try body, or the keyword fallback built
\* in the except branch
WasteClassificationTool_run(waste_description, response) ==
    IF WasteClassificationTool_try(waste_description, response).raised
    THEN Returned(ClassificationResult(_fallback_classification(waste_description),
                                       "Fallback classification due to error"))
    ELSE WasteClassificationTool_try(waste_description, response)

\* a text longer than the 50 characters _run prints
LongQueryLen == 60
LongQuery == [i \in 1..LongQueryLen |-> "a"]
ClassifierQueries == Queries \cup {LongQuery}
\* a str kept as the tuple of its characters
Chars(text) == [t |-> "chars", v |-> text]

ToolCalls ==
    {[tool |-> "regulation_lookup", query |-> q] : q \in RegulationQueries}
    \cup {[tool |-> "location_finder", query |-> q] : q \in FinderQueries}
    \cup {[tool |-> "waste_classifier", query |-> Chars(q)] : q \in ClassifierQueries}

ToolInit ==
    /\ call \in ToolCalls
    /\ pc = "tool_call"
    /\ result = None
    /\ state = None
    /\ steps = 0
    /\ trace = <<>>
    /\ raised = {}
    /\ answered = {}
    /\ gmaps_client \in BOOLEAN
    /\ llm_raised = FALSE

\* tool._run(query) for the regulation lookup tool
RegulationLookupToolRun ==
    /\ pc = "tool_call"
    /\ call.tool = "regulation_lookup"
    /\ result' = RegulationLookupTool_run(call.query)
    /\ pc' = "tool_returned"
    /\ UNCHANGED <<state, steps, trace, raised, answered, gmaps_client, call, llm_raised>>

\* tool._run(query) for the facility finder
LocationFinderToolRun ==
    /\ pc = "tool_call"
    /\ call.tool = "location_finder"
    /\ \E w \in {"e-waste", "None"} : \E places \in PlacesResults(w) :
          result' = LocationFinderTool_run(call.query, gmaps_client, places)
    /\ pc' = "tool_returned"
    /\ UNCHANGED <<state, steps, trace, raised, answered, gmaps_client, call, llm_raised>>

\* the classify stage on a fresh state: tool._run(user_query) inside the
\* stage's try, whose except branch is entered when the call raises
WasteClassifierToolRun ==
    /\ pc = "tool_call"
    /\ call.tool = "waste_classifier"
    /\ \E response \in LlmClassifications :
          /\ result' = WasteClassificationTool_run(call.query.v, response)
          /\ state' = classify_waste(InitialState(call.query.v, None), result'.raised, response)
          /\ llm_raised' = (response.kind = "raise")
    /\ pc' = "tool_returned"
    /\ UNCHANGED <<steps, trace, raised, answered, gmaps_client, call>>

ToolNext ==
    \/ RegulationLookupToolRun
    \/ LocationFinderToolRun
    \/ WasteClassifierToolRun

ToolSpec == ToolInit /\ [][ToolNext]_vars

-----------------------------------------------------------------------------
(* Properties *)

\* how many times a node has run
Count(seq, x) == Cardinality({i \in 1..Len(seq) : seq[i] = x})

\* a field holds no value yet: null, or for the location hint an empty dict
Unset(s, field) ==
    s[field] = None \/ (field = "user_location" /\ s[field] = EmptyDict)

\* the precedence of the routing contract, with an empty list counting as set
ContractRoute(s) ==
    IF Unset(s, "waste_type") THEN "classify_waste"
    ELSE IF Unset(s, "user_location") THEN "get_location"
    ELSE IF Unset(s, "local_regulations") THEN "lookup_regulations"
    ELSE IF Unset(s, "disposal_locations") THEN "find_locations"
    ELSE "generate_response"

\* C1: in every state the router answers by the fixed precedence classify_waste,
\* get_location, lookup_regulations, find_locations, generate_response over the
\* set/unset fields (stated for the states a run reaches; a weaker statement
\* than the claim's "every combination", and already violated).
C1_RouterPrecedence ==
    plan_next_action(state) = ContractRoute(state)

\* C2: when waste_type, user_location and local_regulations are set and
\* disposal_locations is the empty list, the router answers generate_response,
\* not find_locations.
C2_EmptyListCountsAsSet ==
    (/\ Truthy(state.waste_type) /\ Truthy(state.user_location)
     /\ Truthy(state.local_regulations)
     /\ state.disposal_locations = List(<<>>))
    => (/\ plan_next_action(state) = "generate_response"
        /\ plan_next_action(state) # "find_locations")

\* a well-formed WorkflowResult
IsWorkflowResult(r) ==
    /\ r # None
    /\ {"success", "user_query", "final_response", "error_message"} \subseteq DOMAIN r
    /\ r.success \in BOOLEAN
    /\ r.user_query = state.user_query

\* C3: every run of process_query stays within the step cap and ends by
\* returning a WorkflowResult, whatever the query and whatever the
\* collaborators do: no exception leaves it, every step either uses up one of
\* the RecursionLimit graph steps or returns, and it does return.
C3_Termination ==
    /\ [](/\ steps <= RecursionLimit
          /\ pc # "raised"
          /\ pc = "returned" => IsWorkflowResult(result))
    /\ [][steps' = steps + 1 \/ pc' = "returned"]_vars
    /\ <>(pc = "returned" /\ IsWorkflowResult(result))

\* C3 witness: a run that met a failing facility finder and an empty facility
\* list has returned
C3_Witness ==
    /\ pc = "returned"
    /\ IsWorkflowResult(result)
    /\ "find_locations" \in raised
    /\ "find_locations" \in answered
    /\ state.disposal_locations = List(<<>>)

\* C4: when every call of the facility finder fails (and no other collaborator
\* does), the returned result has disposal_locations = [], error_message set,
\* success = true and a final_response written by generate_response, not the
\* apology.
C4_FinderAlwaysFails ==
    (/\ pc = "returned"
     /\ raised = {"find_locations"}
     /\ "find_locations" \notin answered)
    => (/\ result.success
        /\ Get(result, "disposal_locations") = List(<<>>)
        /\ Get(result, "error_message") # None
        /\ Count(trace, "generate_response") = 1
        /\ result.final_response # ApologyResponse)

\* no worker call raised, and the classify stage recorded the keyword
\* fallback's default (the model gave no usable answer)
ClassifiedByDefault ==
    /\ raised = {}
    /\ state.waste_classification # None
    /\ state.waste_classification.v.sub_type = "general"
    /\ state.waste_classification.v.confidence = FallbackConfidence

\* C5: for the empty query the classify stage yields household with confidence
\* at most 0.5 and the run still reaches generate_response and returns
\* success = true with a non-empty final_response (stated for the runs in which
\* the classifier's model gave no usable answer and the text generator did not
\* answer the empty text; a weaker statement than the claim, and already
\* violated).
C5_EmptyQuery ==
    (/\ pc = "returned"
     /\ state.user_query = EmptyQuery
     /\ ClassifiedByDefault
     /\ state.final_response # Text(<<>>))
    => (/\ state.waste_type = Str("household")
        /\ state.confidence_score.v <= 50
        /\ Count(trace, "generate_response") = 1
        /\ result.success
        /\ Truthy(result.final_response))

\* C6: a stage starts only when the field of every predecessor stage holds a
\* value: get_location after waste_type, lookup_regulations after
\* user_location, find_locations after local_regulations, generate_response
\* after disposal_locations.
C6_StageOrder ==
    /\ pc \in {"get_location", "lookup_regulations", "find_locations",
               "generate_response"} => state.waste_type # None
    /\ pc \in {"lookup_regulations", "find_locations", "generate_response"}
          => state.user_location # None
    /\ pc \in {"find_locations", "generate_response"}
          => state.local_regulations # None
    /\ pc = "generate_response" => state.disposal_locations # None

\* C6 witness: find_locations is about to start on fallback values of its
\* predecessors
C6_Witness ==
    /\ pc = "find_locations"
    /\ "classify_waste" \in raised
    /\ "lookup_regulations" \in raised
    /\ state.local_regulations # None

\* C7: every stage runs at most once in a run.
C7_ForwardOnly ==
    \A n \in StageNodes : Count(trace, n) <= 1

MonotonicFields ==
    {"waste_type", "user_location", "local_regulations", "disposal_locations",
     "final_response"}

\* C8: once waste_type, user_location, local_regulations, disposal_locations or
\* final_response is non-null, no later step makes it null.
C8_MonotonicFields ==
    [][\A f \in MonotonicFields : state[f] # None => state'[f] # None]_vars

\* C8 witness: a field that already held a value has been written again
C8_Witness ==
    /\ Count(trace, "find_locations") >= 2
    /\ "find_locations" \in raised
    /\ state.disposal_locations # None

\* C9 as stated: whenever final_response is set, routing answers the terminal
\* sentinel.
C9_RouterAnswersEnd ==
    state.final_response # None => _route_next_action(state) = "end"

\* C9 amended: once generate_response has run it is the last node of the run:
\* the graph is at END or has returned, and no node runs afterwards.
C9_NoStageAfterResponse ==
    Count(trace, "generate_response") > 0
    => (/\ pc \in {"END", "returned"}
        /\ trace[Len(trace)] = "generate_response"
        /\ \A i \in 1..(Len(trace) - 1) : trace[i] # "generate_response")

\* C9 witness: generate_response has run and process_query has returned
C9_Witness ==
    /\ pc = "returned"
    /\ state.final_response # None
    /\ trace[Len(trace)] = "generate_response"
    /\ _route_next_action(state) = "generate_response"

\* C10: final_response is written at most once in a run, and only by the
\* generate_response node.
C10_ResponseWrittenOnce ==
    [][/\ state'.final_response # state.final_response
          => (pc = "generate_response" /\ state.final_response = None)
       /\ pc = "generate_response" /\ pc' # pc
          => Count(trace, "generate_response") = 0]_vars

\* C10 witness: the generate_response node has written final_response
C10_Witness ==
    /\ pc = "END"
    /\ Count(trace, "generate_response") = 1
    /\ state.final_response # None

\* the field each worker operation owns
WorkerField(n) ==
    CASE n = "classify_waste" -> "waste_type"
      [] n = "get_location" -> "user_location"
      [] n = "lookup_regulations" -> "local_regulations"
      [] n = "find_locations" -> "disposal_locations"

\* the explanatory string each worker's except branch records
WorkerError(n) ==
    CASE n = "classify_waste" -> Str("Classification error")
      [] n = "get_location" -> Str("Location error")
      [] n = "lookup_regulations" -> Str("Regulation error")
      [] n = "find_locations" -> Str("Location finder error")

\* C11: every run of a worker operation hands a state back to the supervisor
\* with the operation's own field non-null, whether or not its collaborator
\* failed; the run in which a worker's collaborator first fails records that
\* worker's explanatory string in error_message, and error_message stays set
\* once a collaborator has failed.
C11_WorkersRecover ==
    [][\A n \in WorkerNodes :
          trace' = Append(trace, n)
          => (/\ pc' = "supervisor"
              /\ result' = None
              /\ state'[WorkerField(n)] # None
              /\ (n \in raised' /\ n \notin raised)
                    => state'.error_message = WorkerError(n)
              /\ raised' # {} => state'.error_message # None)]_vars

\* C11 witness: all four workers have run with a failing collaborator and
\* control is back at the supervisor
C11_Witness ==
    /\ pc = "supervisor"
    /\ raised = WorkerNodes
    /\ answered = {}
    /\ \A n \in WorkerNodes : state[WorkerField(n)] # None
    /\ state.error_message = WorkerError("find_locations")

\* C12: after a classify stage whose classifier failed, waste_type is household
\* and the classification detail and confidence are recorded too: confidence
\* low (at most 0.5) and special handling false.
C12_FullFallbackClassification ==
    "classify_waste" \in raised
    => (/\ state.waste_type = Str("household")
        /\ state.waste_classification # None
        /\ state.confidence_score # None
        /\ state.confidence_score.v <= 50
        /\ ~state.waste_classification.v.special_handling)

\* C13: when the get_location stage returns, user_location is a dict with a
\* non-empty city and a non-empty state; when the location resolver failed it
\* is the default New York / NY / US and error_message holds the location
\* error.
C13_LocationHasCityAndState ==
    [][trace' = Append(trace, "get_location")
       => (/\ state'.user_location.t = "dict"
           /\ state'.user_location.n > 0
           /\ state'.user_location.v.city # ""
           /\ state'.user_location.v.state # ""
           /\ "get_location" \in raised'
                 => (/\ state'.user_location.v.city = "New York"
                     /\ state'.user_location.v.state = "NY"
                     /\ state'.user_location.v.country = "US"
                     /\ state'.error_message = Str("Location error")))]_vars

\* C13 witness: the resolver answered without a city and the stage returned
\* with the validation's placeholder city
C13_Witness ==
    /\ trace # <<>>
    /\ trace[Len(trace)] = "get_location"
    /\ "get_location" \in answered
    /\ state.user_location.v.city = "Unknown City"
    /\ state.user_location.v.state = "NY"

\* C14: a lookup_regulations stage whose regulation lookup failed stores the
\* generic regulation (jurisdiction 'General Guidelines', rules telling the
\* user to check with local waste management authorities) and the regulation
\* error, and the supervisor step that follows routes to find_locations.
C14_RegulationFallback ==
    [][/\ (trace' = Append(trace, "lookup_regulations")
           /\ "lookup_regulations" \in raised')
          => (/\ state'.local_regulations.t = "dict"
              /\ state'.local_regulations.n > 0
              /\ state'.local_regulations.v.jurisdiction = <<"General Guidelines">>
              /\ state'.local_regulations.v.rules =
                     <<"Please check with local waste management authorities.">>
              /\ state'.error_message = Str("Regulation error")
              /\ pc' = "supervisor")
       /\ (/\ pc = "supervisor"
           /\ trace # <<>>
           /\ trace[Len(trace)] = "lookup_regulations"
           /\ "lookup_regulations" \in raised)
          => (/\ pc' = "find_locations"
              /\ state'.processing_step = Str("find_locations"))]_vars

\* C14 witness: only the regulation lookup failed and find_locations is about
\* to start on the generic regulation
C14_Witness ==
    /\ pc = "find_locations"
    /\ raised = {"lookup_regulations"}
    /\ trace[Len(trace)] = "lookup_regulations"
    /\ state.local_regulations.v.jurisdiction = <<"General Guidelines">>
    /\ state.error_message = Str("Regulation error")

\* the graph has aborted: ainvoke raised because the step budget ran out at a
\* node, before END
GraphAborted ==
    /\ pc \in StageNodes \cup {"supervisor"}
    /\ steps >= RecursionLimit
    /\ result = None

\* C15: when the graph aborts with an exception, the next step of
\* process_query is to return a result with success = false, error_message
\* holding the exception text and the fixed apology as final_response; the
\* exception never leaves process_query.
C15_FailureBoundary ==
    /\ [][GraphAborted
          => (/\ pc' = "returned"
              /\ result'.success = FALSE
              /\ result'.user_query = state.user_query
              /\ result'.error_message = Str("Recursion limit reached")
              /\ result'.final_response = ApologyResponse
              /\ state' = state)]_vars
    /\ [](pc # "raised")

\* C15 witness: process_query has returned from its except branch
C15_Witness ==
    /\ pc = "returned"
    /\ result.success = FALSE
    /\ result.final_response = ApologyResponse
    /\ result.error_message = Str("Recursion limit reached")

\* C16: a run that uses up the step budget without final_response being set
\* does end: process_query returns, and whenever it has returned without a
\* final_response the result has success = false and a non-empty
\* error_message; the step count never passes the cap.
C16_CapReached ==
    /\ [](/\ steps <= RecursionLimit
          /\ (pc = "returned" /\ state.final_response = None)
                => (/\ result.success = FALSE
                    /\ Truthy(result.error_message)))
    /\ ((steps = RecursionLimit /\ state.final_response = None)
            ~> (pc = "returned" /\ result.success = FALSE))

\* C16 witness: the router kept selecting find_locations until the cap and
\* process_query returned the failure result
C16_Witness ==
    /\ pc = "returned"
    /\ steps = RecursionLimit
    /\ state.final_response = None
    /\ state.processing_step = Str("find_locations")
    /\ Count(trace, "find_locations") >= 2
    /\ result.success = FALSE

\* the fields the stages gather
GatheredFields ==
    {"waste_type", "user_location", "local_regulations", "disposal_locations"}

\* C17: a result returned without final_response has success = false and
\* carries every gathered field that was set before the stop, with its value.
C17_PartialStateReturned ==
    (pc = "returned" /\ state.final_response = None)
    => (/\ result.success = FALSE
        /\ \A f \in GatheredFields :
              state[f] # None => Get(result, f) = state[f])

\* C18: every result process_query returns has a non-empty final_response.
C18_ResponseNonEmpty ==
    pc = "returned" => Truthy(result.final_response)

\* a state that agrees with s on the four gathered fields and holds the
\* initial values everywhere else
FieldsOnly(s) ==
    [InitialState(<<>>, s.user_location) EXCEPT
        !.waste_type = s.waste_type,
        !.local_regulations = s.local_regulations,
        !.disposal_locations = s.disposal_locations]

\* C19: the router's answer is determined by the values of the fields it tests:
\* a state that agrees on waste_type, user_location, local_regulations and
\* disposal_locations gets the same answer whatever its other fields hold; the
\* supervisor step that calls the router changes no field but its own
\* processing_step, and asking again on the state it leaves gives the same
\* answer.
C19_RouterPure ==
    /\ [](plan_next_action(state) = plan_next_action(FieldsOnly(state)))
    /\ [][(pc = "supervisor" /\ pc' # "returned")
          => (/\ \A f \in DOMAIN state \ {"processing_step"} : state'[f] = state[f]
              /\ state'.processing_step = Str(plan_next_action(state))
              /\ plan_next_action(state') = plan_next_action(state))]_vars

\* C19 witness: the router has been asked again about a state that differs
\* from an earlier one only outside the fields it tests
C19_Witness ==
    /\ pc = "find_locations"
    /\ Count(trace, "find_locations") >= 1
    /\ state.processing_step = Str("find_locations")
    /\ state.error_message = Str("Location finder error")
    /\ state # FieldsOnly(state)

\* C20: every worker stage hands control back to the supervisor and leaves
\* processing_step alone; every supervisor step stores the router's answer for
\* the state it leaves in processing_step and hands control to the stage named
\* there; so a stage only ever runs while processing_step names it.
C20_RouterChoosesTransitions ==
    /\ [][/\ \A n \in WorkerNodes :
                trace' = Append(trace, n)
                => (/\ pc = n
                    /\ pc' = "supervisor"
                    /\ state.processing_step = Str(n)
                    /\ state'.processing_step = state.processing_step)
          /\ (pc = "supervisor" /\ pc' # "returned")
                => (/\ state'.processing_step = Str(plan_next_action(state'))
                    /\ pc' = plan_next_action(state')
                    /\ trace' = trace)]_vars
    /\ [](pc \in StageNodes => state.processing_step = Str(pc))

\* C20 witness: the supervisor skipped get_location for a caller-supplied
\* location and the named stage lookup_regulations is about to run
C20_Witness ==
    /\ pc = "lookup_regulations"
    /\ trace = <<"classify_waste">>
    /\ state.processing_step = Str("lookup_regulations")
    /\ plan_next_action(state) = "lookup_regulations"

\* C21: the first stage a run executes is classify_waste, whatever the query
\* and the location hint: the first supervisor step routes there and the stage
\* history starts with it.
C21_ClassifyFirst ==
    /\ steps = 1 => (pc = "classify_waste"
                     /\ state.processing_step = Str("classify_waste"))
    /\ trace # <<>> => trace[1] = "classify_waste"

\* C21 witness: a run that was given a location hint has executed its first
\* stage
C21_Witness ==
    /\ Len(trace) = 1
    /\ trace[1] = "classify_waste"
    /\ state.user_location = Dict(Location("Chicago", "IL", <<>>, "", "US"))
    /\ state.waste_type # None

\* C22: the generate_response stage only ever starts, and only ever runs, on a
\* state whose waste_type, user_location, local_regulations and
\* disposal_locations are all non-null, and it leaves those four as they are.
C22_SynthesizerPrecondition ==
    /\ [](pc = "generate_response" => \A f \in GatheredFields : state[f] # None)
    /\ [][trace' = Append(trace, "generate_response")
          => \A f \in GatheredFields : state[f] # None /\ state'[f] = state[f]]_vars

\* C22 witness: the synthesizer is about to run on a fallback location
C22_Witness ==
    /\ pc = "generate_response"
    /\ "get_location" \in raised
    /\ \A f \in GatheredFields : state[f] # None

\* C23: user_query is never modified: in every state of a run it equals the
\* query process_query was called with, no step changes it, and the returned
\* result carries that query, on the success and on the failure path.
C23_QueryNeverModified ==
    /\ [](/\ state.user_query = call.user_query
          /\ pc = "returned" => result.user_query = call.user_query)
    /\ [][state'.user_query = state.user_query /\ call' = call]_vars

\* C23 witness: a run on a query with capitals has gone through all its stages
\* and returned
C23_Witness ==
    /\ pc = "returned"
    /\ call.user_query = OilCanQuery
    /\ Lower(call.user_query) # call.user_query
    /\ result.success
    /\ Len(trace) >= 4
    /\ result.user_query = OilCanQuery

\* the fields each stage writes besides error_message
StageWrites(n) ==
    CASE n = "classify_waste" -> {"waste_type", "waste_classification", "confidence_score"}
      [] n = "get_location" -> {"user_location"}
      [] n = "lookup_regulations" -> {"local_regulations"}
      [] n = "find_locations" -> {"disposal_locations"}
      [] n = "generate_response" -> {"final_response"}

\* C24: a run of a stage changes no field of the state outside the stage's own
\* fields and, for the four workers, error_message; generate_response changes
\* final_response only; disposal_locations changes only in a step of
\* find_locations.
C24_StageFrame ==
    [][/\ \A n \in StageNodes :
             trace' = Append(trace, n)
             => \A f \in DOMAIN state :
                   state'[f] # state[f]
                   => (f \in StageWrites(n)
                       \/ (f = "error_message" /\ n \in WorkerNodes))
       /\ state'.disposal_locations # state.disposal_locations
             => pc = "find_locations"]_vars

\* C24 witness: all five stages have run, each having written its own field
C24_Witness ==
    /\ pc = "END"
    /\ Len(trace) = 5
    /\ \A n \in StageNodes : Count(trace, n) = 1
    /\ \A n \in StageNodes : \A f \in StageWrites(n) : state[f] # None
    /\ raised = {}

\* the message of the latest stage, in stage order, whose collaborator failed
LastError(failed) ==
    IF "find_locations" \in failed THEN WorkerError("find_locations")
    ELSE IF "lookup_regulations" \in failed THEN WorkerError("lookup_regulations")
    ELSE IF "get_location" \in failed THEN WorkerError("get_location")
    ELSE IF "classify_waste" \in failed THEN WorkerError("classify_waste")
    ELSE None

\* C25: a run in which classify_waste, get_location or lookup_regulations
\* failed (and find_locations did not) still goes through generate_response
\* and returns success = true with error_message equal to the message of the
\* latest failing stage; and a returned result's error_message is null exactly
\* when no stage failed.
C25_ErrorDoesNotHalt ==
    pc = "returned"
    => (/\ (raised # {} /\ "find_locations" \notin raised)
              => (/\ Count(trace, "generate_response") = 1
                  /\ result.success
                  /\ result.error_message = LastError(raised))
        /\ result.error_message = None <=> raised = {})

\* C26: a generate_response stage whose text generator raised stores the
\* deterministic fallback report as final_response and goes on to END, and
\* the run returns success = true with that report.
C26_SynthesizerFallback ==
    /\ [][(trace' = Append(trace, "generate_response") /\ llm_raised')
          => (/\ state'.final_response = _generate_fallback_response(state)
              /\ Truthy(state'.final_response)
              /\ pc' = "END")]_vars
    /\ []((pc = "returned" /\ llm_raised)
          => (/\ result.success
              /\ result.final_response = _generate_fallback_response(state)))

\* C26 witness: a run whose text generator raised has returned
C26_Witness ==
    /\ pc = "returned"
    /\ llm_raised
    /\ result.success
    /\ result.final_response # ApologyResponse

\* C27: the fallback report is a function of the state that the call leaves
\* alone: once the stage has stored the report, computing it again on the
\* state that now holds it gives the stored report, the same as on the state
\* before; and the step that computed it changed final_response only.
C27_FallbackIdempotent ==
    /\ [](llm_raised
          => (/\ _generate_fallback_response(state) = state.final_response
              /\ _generate_fallback_response([state EXCEPT !.final_response = None])
                    = _generate_fallback_response(state)))
    /\ [][(trace' = Append(trace, "generate_response") /\ llm_raised')
          => (/\ _generate_fallback_response(state') = _generate_fallback_response(state)
              /\ \A f \in DOMAIN state \ {"final_response"} : state'[f] = state[f])]_vars

\* C27 witness: the fallback report listing facilities has been stored
C27_Witness ==
    /\ pc = "END"
    /\ llm_raised
    /\ Len(state.disposal_locations.v) >= 2
    /\ state.final_response = _generate_fallback_response(state)

\* the positions of a one-part line in a report
Pos(report, heading) ==
    {i \in 1..Len(report) : Len(report[i]) = 1 /\ report[i] = <<heading>>}

\* the fallback synthesizer can be called on the state: waste_type and
\* user_location hold values
CanReport(s) == s.waste_type # None /\ s.user_location.t = "dict" /\ s.user_location.n > 0

\* C28: in the fallback report of any state, the facility entries are the
\* first min(3, n) facilities of disposal_locations, numbered in list order;
\* the preparation steps shown are the first min(3, n) steps; with no
\* facilities the 'Disposal Options' boilerplate stands in place of the
\* facilities section; and the report ends with the 'Next Steps' heading and
\* its four fixed items.
C28_FallbackReportShape ==
    CanReport(state) =>
    LET report == _generate_fallback_response(state).v
        n == Len(report)
        locations == IF state.disposal_locations.t = "list"
                     THEN state.disposal_locations.v ELSE <<>>
        prep_steps == IF Truthy(state.local_regulations)
                      THEN state.local_regulations.v.preparation_steps ELSE <<>>
        IsFacilityLine(l) == Len(l) = 8 /\ l[2] = ". **"
    IN  /\ Pos(report, "**Next Steps:**") = {n - 4}
        /\ report[n - 3] = <<"1. Follow any preparation requirements listed above">>
        /\ report[n - 2] = <<"2. Contact the facility to confirm they accept your waste type">>
        /\ report[n - 1] = <<"3. Check facility hours and any fees">>
        /\ report[n] = <<"4. Transport your waste safely to the disposal location">>
        /\ locations = <<>>
              => (/\ Pos(report, "**Disposal Locations Near You:**") = {}
                  /\ Pos(report, "**Disposal Options:**") = {n - 8}
                  /\ report[n - 7] = <<"- Contact your local waste management service">>)
        /\ locations # <<>>
              => (/\ Pos(report, "**Disposal Options:**") = {}
                  /\ \E q \in Pos(report, "**Disposal Locations Near You:**") :
                        LET heads == SelectSeq(SubSeq(report, q + 1, n - 5), IsFacilityLine)
                        IN  /\ Len(heads) = Min(Len(locations), 3)
                            /\ \A k \in 1..Len(heads) :
                                  /\ heads[k][1] = k
                                  /\ heads[k][3] = locations[k].name
                                  /\ heads[k][5] = locations[k].address
                                  /\ heads[k][7] = locations[k].distance_km)
        /\ prep_steps # <<>>
              => \E p \in Pos(report, "**Preparation Steps:**") :
                    /\ \A k \in 1..Min(Len(prep_steps), 3) :
                          report[p + k] = <<"- ">> \o prep_steps[k]
                    /\ Len(report[p + Min(Len(prep_steps), 3) + 1]) = 1

\* C28 witness: the fallback report was stored for a state with more than
\* three facilities and more than three preparation steps
C28_Witness ==
    /\ llm_raised
    /\ state.final_response = _generate_fallback_response(state)
    /\ Len(state.disposal_locations.v) > 3
    /\ Len(state.local_regulations.v.preparation_steps) > 3

\* C29: with two calls of process_query in flight on one workflow object, in
\* every interleaving: a step changes the state, position, step count,
\* history and result of one call only; each call's state keeps its own query,
\* its classification is the classifier's answer for its own query, and the
\* result it returns is built from its own query and its own state.
C29_StateIsolation ==
    /\ [](\A q \in Runs :
            /\ state[q].user_query = call[q].user_query
            /\ state[q].waste_classification # None
                  => \E r \in ConcurrentClassifications :
                        state[q].waste_classification
                            = Dict(classifier_run(call[q].user_query, r))
            /\ pc[q] = "returned"
                  => (/\ result[q].user_query = call[q].user_query
                      /\ result[q].success
                            => \A f \in GatheredFields \cup {"final_response", "error_message"} :
                                  result[q][f] = state[q][f]))
    /\ [][\E q \in Runs : \A o \in Runs \ {q} :
              /\ state'[o] = state[o]
              /\ pc'[o] = pc[o]
              /\ steps'[o] = steps[o]
              /\ trace'[o] = trace[o]
              /\ result'[o] = result[o]]_vars

\* C29 witness: two calls with different queries have both returned, each
\* with the waste type of its own query
C29_Witness ==
    /\ \A q \in Runs : pc[q] = "returned"
    /\ call[1].user_query = LaptopQuery
    /\ call[2].user_query = EmptyQuery
    /\ result[1].success
    /\ result[1].waste_type = Str("e-waste")
    /\ state[2].waste_type = Str("household")
    /\ result[2].user_query = EmptyQuery

\* C30: when the lookup answered for a state the regulation table has no table
\* for, and the DEFAULT table knows the waste type, the stored regulation's
\* jurisdiction is the DEFAULT table's own label 'Federal/General Guidelines'.
C30_DefaultJurisdiction ==
    (/\ "lookup_regulations" \in answered
     /\ state.user_location.t = "dict"
     /\ state.user_location.n > 0
     /\ state.user_location.v.state \notin {"NY", "CA", "TX"}
     /\ WasteTypeArg(state) \in regulation_db_types("DEFAULT"))
    => (/\ state.local_regulations.t = "dict"
        /\ state.local_regulations.v.jurisdiction = regulation_db_jurisdiction("DEFAULT"))

\* C31: a run in which no collaborator failed (no worker's tool raised, the
\* text generator answered) returns success = true with a non-empty city and
\* state, a non-empty jurisdiction, a list of facilities of any length and a
\* non-empty final_response.
C31_HappyPath ==
    (/\ pc = "returned"
     /\ raised = {}
     /\ ~llm_raised
     /\ state.final_response # Text(<<>>))
    => (/\ result.success
        /\ Get(result, "user_location").t = "dict"
        /\ result.user_location.v.city # ""
        /\ result.user_location.v.state # ""
        /\ result.local_regulations.v.jurisdiction # <<>>
        /\ result.disposal_locations.t = "list"
        /\ Truthy(result.final_response))

\* C32: RegulationLookupTool._run never raises and, whatever the input (JSON,
\* the 'waste_type in STATE' form, the empty string, text that is not JSON, an
\* empty or null location, an unknown waste type), returns a regulation with a
\* non-empty jurisdiction and non-empty rules.
C32_RegulationToolTotal ==
    (pc = "tool_returned" /\ call.tool = "regulation_lookup")
    => (/\ ~result.raised
        /\ Join(result.value.jurisdiction) # ""
        /\ Join(result.value.rules) # "")

\* the null location of the edge-case test is answered with the emergency
\* fallback
C32_Witness ==
    /\ pc = "tool_returned"
    /\ call.tool = "regulation_lookup"
    /\ call.query = Json(Dict([location |-> None, waste_type |-> Str("e-waste")]))
    /\ ~result.raised
    /\ result.value.jurisdiction = <<"General Guidelines">>

\* C33: LocationFinderTool._run never raises and, whatever the input, returns
\* a result with facilities_found and a facilities list, facilities_found
\* being the length of that list.
C33_FinderToolTotal ==
    (pc = "tool_returned" /\ call.tool = "location_finder")
    => (/\ ~result.raised
        /\ {"facilities_found", "facilities"} \subseteq DOMAIN result.value
        /\ result.value.facilities_found = Len(result.value.facilities))

\* a search that found the same place twice: three places found, two listed
C33_Witness ==
    /\ pc = "tool_returned"
    /\ call.tool = "location_finder"
    /\ gmaps_client
    /\ ~result.raised
    /\ result.value.facilities_found = 2
    /\ \E i \in 1..2 : result.value.facilities[i].name = "Place B"

\* every value a stage has written so far is non-empty
StagesProducedValues ==
    \A f \in {"waste_type", "user_location", "local_regulations",
              "disposal_locations", "final_response"} :
        state[f] # None => Truthy(state[f])

\* the five stages in dependency order
StageChain ==
    <<"classify_waste", "get_location", "lookup_regulations", "find_locations",
      "generate_response">>

\* a call without hint runs the stages of StageChain in order, each right after
\* a supervisor step, and is over once generate_response has run
FiveStagesInOrder ==
    call.user_location = None =>
        /\ Len(trace) <= 5
        /\ trace = SubSeq(StageChain, 1, Len(trace))
        /\ pc \in StageNodes => (steps = 2 * Len(trace) + 1 /\ pc = StageChain[Len(trace) + 1])
        /\ pc = "supervisor" => (steps = 2 * Len(trace) /\ Len(trace) < 5)
        /\ pc \in {"END", "returned"} => (trace = StageChain /\ steps = 10)

\* C34: in an execution without location hint in which every stage produces a
\* non-empty value, exactly the five stages run, once each and in the order
\* classify_waste, get_location, lookup_regulations, find_locations,
\* generate_response, a supervisor step precedes each of them (five in all),
\* and the workflow ends right after generate_response.
C34_FiveStagesOnce == ([]StagesProducedValues) => ([]FiveStagesInOrder)

C34_Witness ==
    /\ pc = "returned"
    /\ call.user_location = None
    /\ StagesProducedValues
    /\ trace = StageChain
    /\ steps = 10
    /\ result.success

\* C35: with a non-empty location hint get_location never runs and the
\* result's user_location is the hint; with a null or empty-dict hint
\* get_location runs exactly once, right after classify_waste.
C35_HintSkipsLocation ==
    /\ Truthy(call.user_location) =>
          /\ Count(trace, "get_location") = 0
          /\ pc = "returned" => Get(result, "user_location") = call.user_location
    /\ (~Truthy(call.user_location) /\ pc = "returned") =>
          /\ Count(trace, "get_location") = 1
          /\ Len(trace) >= 2
          /\ trace[1] = "classify_waste"
          /\ trace[2] = "get_location"

\* C36: whenever process_query returns success = true, the result's
\* final_response is non-null and is what the generate_response stage wrote,
\* and waste_type, user_location, local_regulations and disposal_locations in
\* the result are all non-null.
C36_SuccessIsComplete ==
    (pc = "returned" /\ result.success) =>
        /\ result.final_response # None
        /\ Count(trace, "generate_response") = 1
        /\ trace[Len(trace)] = "generate_response"
        /\ result.final_response = state.final_response
        /\ \A f \in {"waste_type", "user_location", "local_regulations",
                     "disposal_locations"} : result[f] # None

\* a successful call that was given the location hint
C36_Witness ==
    /\ pc = "returned"
    /\ result.success
    /\ Truthy(call.user_location)
    /\ result.final_response # None
    /\ result.disposal_locations # None

\* the names of the facilities in a list
Names(facilities) == {facilities[i].name : i \in 1..Len(facilities)}

NoKeyword(text) ==
    \A i \in 1..Len(classification_rules) :
        \A k \in 1..Len(classification_rules[i].keywords) :
            ~Contains(Lower(text), classification_rules[i].keywords[k])

\* C39: the classifier's _run never fails, whatever the query text (empty,
\* garbage, very long): it returns a classification whose primary_type is in
\* the waste-type enumeration; when the model is unavailable and no keyword
\* matches, the classification is household, confidence 0.3, special_handling
\* false; so the classify stage writes waste_type without entering its own
\* failure branch.
C39_ClassifierTotal ==
    (pc = "tool_returned" /\ call.tool = "waste_classifier")
    => (/\ ~result.raised
        /\ result.value.primary_type \in WasteTypes
        /\ (llm_raised /\ NoKeyword(call.query.v)) =>
              /\ result.value.primary_type = "household"
              /\ result.value.confidence = FallbackConfidence
              /\ result.value.special_handling = FALSE
        /\ state.waste_type = Str(result.value.primary_type)
        /\ state.waste_classification = Dict(result.value)
        /\ state.error_message = None)

\* the empty query with the model unavailable
C39_Witness ==
    /\ pc = "tool_returned"
    /\ call.tool = "waste_classifier"
    /\ call.query = Chars(EmptyQuery)
    /\ llm_raised
    /\ state.waste_type = Str("household")
    /\ state.error_message = None

====
